---- MODULE Spec2Model ----
(***************************************************************************)
(* Simple-Journal: the SQLite note store (services/database.ts), the notes *)
(* and categories repository (services/notesService.ts) and the Gemini     *)
(* request loop (services/geminiService.ts).                               *)
(*                                                                         *)
(* Text is a sequence of one-character strings, so trimming, case folding  *)
(* and LIKE matching are computed character by character.  Identifiers,    *)
(* emojis and colours are atoms (TLA+ strings); "" is the empty JS string. *)
(***************************************************************************)
EXTENDS Integers, Sequences, FiniteSets, TLC

VARIABLES
  notes,       \* table notes: rows in rowid (insertion) order
  categories,  \* table categories: rows in rowid order
  foreignKeys, \* PRAGMA foreign_keys of the connection
  users,       \* table users: the set of user ids
  now,         \* the clock read by Date.now() / new Date(), in milliseconds
  ret,         \* the outcome of the last repository call
  issuedIds,   \* ids returned by successful createNote calls of this session
  reusedIds,   \* ids that a successful createNote returned more than once
  gen,         \* one generateGeminiContent call
  hook,        \* the state of useNotes: notes, isLoading, error, searchQuery
  calls,       \* the useNotes calls: in flight, or settled with their result
  boot         \* seedDatabase: idle, or the example note its loop is at

vars ==
  <<notes, categories, users, foreignKeys, now, ret, issuedIds, reusedIds, gen,
    hook, calls, boot>>

tables == <<notes, categories, users>>

session == <<issuedIds, reusedIds>>

database == <<tables, foreignKeys>>

storeVars == <<database, now, ret, session>>

controller == <<hook, calls>>

-----------------------------------------------------------------------------
(* Bounds of the model *)

MaxNotes == 2        \* rows the notes table may hold
MaxCategories == 1   \* rows the categories table may hold
MaxTime == 1         \* last clock reading
MsPerDay == 2        \* clock readings that share one calendar day
MaxFetches == 3      \* answers the network has ready for one call
MaxCalls == 2        \* useNotes operations in flight at once

-----------------------------------------------------------------------------
(* JavaScript and SQL values *)

NULL == "NULL"                \* SQL NULL / JS null in a text column
Undefined == "undefined"      \* an omitted optional atom of a DTO
UndefinedText == <<"undefined">>   \* an omitted optional text of a DTO
NullNote == [null |-> TRUE]   \* getNoteById's `null`
Void == [void |-> TRUE]       \* Promise<void>, and the value of a rejected call
None == [op |-> "none", val |-> Void]   \* no call worth recalling

DefaultEmoji == "memo"

Truthy(atom) == atom \notin {"", NULL, Undefined}

OrElse(atom, fallback) == IF Truthy(atom) THEN atom ELSE fallback

OrEmptyText(text) == IF text \in {<<>>, <<NULL>>} THEN <<>> ELSE text

-----------------------------------------------------------------------------
(* Text functions *)

IsSpace(c) == c = " "

RECURSIVE TrimStart(_)
TrimStart(s) ==
  IF s = <<>> THEN <<>>
  ELSE IF IsSpace(Head(s)) THEN TrimStart(Tail(s)) ELSE s

RECURSIVE TrimEnd(_)
TrimEnd(s) ==
  IF s = <<>> THEN <<>>
  ELSE IF IsSpace(s[Len(s)]) THEN TrimEnd(SubSeq(s, 1, Len(s) - 1)) ELSE s

trim(s) == TrimEnd(TrimStart(s))

JsLowerChar(c) ==
  CASE c = "A" -> "a"
    [] c = "B" -> "b"
    [] OTHER -> c

toLowerCase(s) == [i \in 1..Len(s) |-> JsLowerChar(s[i])]

SqlLowerChar(c) ==
  CASE c = "A" -> "a"
    [] c = "B" -> "b"
    [] OTHER -> c

LOWER(s) == [i \in 1..Len(s) |-> SqlLowerChar(s[i])]

RECURSIVE LIKE(_, _)
LIKE(s, pattern) ==
  IF pattern = <<>> THEN s = <<>>
  ELSE IF Head(pattern) = "%"
    THEN LIKE(s, Tail(pattern)) \/ (s # <<>> /\ LIKE(Tail(s), pattern))
  ELSE /\ s # <<>>
       /\ \/ Head(pattern) = "_"
          \/ SqlLowerChar(Head(pattern)) = SqlLowerChar(Head(s))
       /\ LIKE(Tail(s), Tail(pattern))

-----------------------------------------------------------------------------
(* Dates *)

toISOString(t) == <<t \div 10, t % 10>>

TextLess(a, b) ==
  \E i \in 1..Len(a) :
    /\ i <= Len(b)
    /\ a[i] < b[i]
    /\ \A j \in 1..(i - 1) : a[j] = b[j]

formatDate(t) == <<"day", t \div MsPerDay>>

-----------------------------------------------------------------------------
(* Inputs *)

RandomSuffixes == {"k3", "x7"}

UserIds == {"u1"}

MissingRef == "0-none"

\* CreateNoteDTOs: an empty title, a whitespace title, a valid note, and a
\* note of a category that does not exist
CreateInputs ==
  { [title |-> <<>>, content |-> <<"a">>, emoji |-> "sun", color |-> "#FBCFE8",
     categoryId |-> MissingRef, userId |-> MissingRef],
    [title |-> <<" ">>, content |-> <<>>, emoji |-> "", color |-> "#BFDBFE",
     categoryId |-> Undefined, userId |-> Undefined],
    [title |-> <<" ", "A", "b", " ">>, content |-> <<" ", "a">>, emoji |-> "",
     color |-> "#BFDBFE", categoryId |-> "", userId |-> Undefined],
    [title |-> <<"b">>, content |-> <<>>, emoji |-> "sun", color |-> "#FBCFE8",
     categoryId |-> MissingRef, userId |-> Undefined] }

\* UpdateNoteDTOs without the id
ContentOnly ==
  [title |-> UndefinedText, content |-> <<" ", "B">>, emoji |-> Undefined,
   color |-> Undefined, categoryId |-> Undefined]

IdOnly ==
  [title |-> UndefinedText, content |-> UndefinedText, emoji |-> Undefined,
   color |-> Undefined, categoryId |-> Undefined]

CategoryOnly(categoryId) ==
  [title |-> UndefinedText, content |-> UndefinedText, emoji |-> Undefined,
   color |-> Undefined, categoryId |-> categoryId]

UpdateInputs ==
  { ContentOnly,
    [title |-> <<"b", " ">>, content |-> UndefinedText, emoji |-> "",
     color |-> "#FEF3C7", categoryId |-> NULL],
    CategoryOnly(MissingRef) }

\* CreateNoteDTOs of notes to search: the second is owned by a stored user
SearchableInputs ==
  { [title |-> <<" ", "A", "b", " ">>, content |-> <<>>, emoji |-> "",
     color |-> "#BFDBFE", categoryId |-> Undefined, userId |-> Undefined],
    [title |-> <<"c">>, content |-> <<"a", "_">>, emoji |-> "sun",
     color |-> "#FBCFE8", categoryId |-> Undefined,
     userId |-> IF users # {} THEN CHOOSE u \in users : TRUE ELSE ""] }

QueryInputs ==
  { <<>>, <<" ">>, <<" ", "B">>, <<"_">> }

OwnerInputs == {Undefined, ""} \cup UserIds

-----------------------------------------------------------------------------
(* The tables (services/database.ts) *)

IdsOf(table) == {table[i].id : i \in 1..Len(table)}

RowOf(table, id) == table[CHOOSE i \in 1..Len(table) : table[i].id = id]

\* FOREIGN KEY (categoryId) REFERENCES categories(id),
\* FOREIGN KEY (userId) REFERENCES users(id), with PRAGMA foreign_keys = ON
ForeignKeysHold(row, cats, usrs) ==
  /\ row.categoryId = NULL \/ row.categoryId \in IdsOf(cats)
  /\ row.userId = NULL \/ row.userId \in usrs

\* id TEXT PRIMARY KEY NOT NULL
PrimaryKeyFree(table, id) == id \notin IdsOf(table)

\* notes.userId without ON DELETE CASCADE and without enforcement
OnDeleteUserNoAction(table, userId) == table

\* ON DELETE CASCADE of notes.userId
OnDeleteUser(table, userId) ==
  SelectSeq(table, LAMBDA row : row.userId # userId)

\* ON DELETE SET NULL of notes.categoryId
OnDeleteCategory(table, categoryId) ==
  [i \in 1..Len(table) |->
     IF table[i].categoryId = categoryId
       THEN [table[i] EXCEPT !.categoryId = NULL]
       ELSE table[i]]

\* generateGeminiContent before it is called
GenIdle ==
  [pc |-> "idle", apiKey |-> "", script |-> <<>>, attempt |-> 0, fetches |-> 0, waits |-> <<>>,
   lastError |-> NULL, result |-> Void, error |-> NULL]

Slots == 1..MaxCalls

IdleCall == [pc |-> "idle"]

\* useState([]), useState(true), useState(null), useState('')
HookInit ==
  [notes |-> <<>>, isLoading |-> TRUE, error |-> NULL, searchQuery |-> <<>>]

Init ==
  /\ notes = <<>>
  /\ categories = <<>>
  /\ users = {}
  /\ foreignKeys = TRUE
  /\ now = 0
  /\ ret = [op |-> "initializeDatabase", arg |-> Void, ok |-> TRUE, err |-> "",
            val |-> Void, before |-> <<>>, fault |-> 0, prev |-> None]
  /\ issuedIds = {}
  /\ reusedIds = {}
  /\ gen = GenIdle
  /\ hook = HookInit
  /\ calls = [slot \in Slots |-> IdleCall]
  /\ boot = [pc |-> "idle"]

\* The outcome of a call: `before` is the notes table when it was made, `fault`
\* the database call of it that failed (0: none), `prev` the call right before
\* it when a read follows up on that call
Resolved(op, arg, val, before) ==
  [op |-> op, arg |-> arg, ok |-> TRUE, err |-> "", val |-> val,
   before |-> before, fault |-> 0, prev |-> None]

Rejected(op, arg, err, before, fault) ==
  [op |-> op, arg |-> arg, ok |-> FALSE, err |-> err, val |-> Void,
   before |-> before, fault |-> fault, prev |-> None]

SqliteError == "SQLITE_ERROR"
SqliteConstraint == "SQLITE_CONSTRAINT"

\* Date.now() advances
Tick ==
  /\ now < MaxTime
  /\ now' = now + 1
  /\ UNCHANGED <<database, ret, session, gen, controller, boot>>

-----------------------------------------------------------------------------
(* Rows and notes (services/notesService.ts) *)

generateId(t, r) == ToString(t) \o "-" \o r

rowToNote(row) ==
  [row EXCEPT !.content = OrEmptyText(row.content),
              !.emoji = OrElse(row.emoji, DefaultEmoji)]

\* ORDER BY updatedAt DESC; rows with equal updatedAt keep their rowid order
RECURSIVE OrderByUpdatedAtDesc(_)
OrderByUpdatedAtDesc(rows) ==
  IF rows = <<>> THEN <<>>
  ELSE LET last == rows[Len(rows)]
           rest == OrderByUpdatedAtDesc(SubSeq(rows, 1, Len(rows) - 1))
           k == Cardinality({i \in 1..Len(rest) :
                               ~TextLess(rest[i].updatedAt, last.updatedAt)})
       IN  SubSeq(rest, 1, k) \o <<last>> \o SubSeq(rest, k + 1, Len(rest))

WhereUserId(table, userId) ==
  IF Truthy(userId)
    THEN SelectSeq(table, LAMBDA row : row.userId = userId)
    ELSE table

\* SELECT * FROM notes without the ORDER BY
SelectAllNotesUnordered(table, userId) == WhereUserId(table, userId)

\* SELECT * FROM notes [WHERE userId = ?] ORDER BY updatedAt DESC
SelectAllNotes(table, userId) ==
  OrderByUpdatedAtDesc(WhereUserId(table, userId))

\* SELECT * FROM notes without the WHERE id = ?
SelectNoteByIdNoWhere(table, id) ==
  IF table # <<>> THEN rowToNote(table[1]) ELSE NullNote

SelectNoteById(table, id) ==
  IF id \in IdsOf(table) THEN rowToNote(RowOf(table, id)) ELSE NullNote

NewNote(dto, t, r) ==
  [id |-> generateId(t, r),
   title |-> trim(dto.title),
   content |-> trim(dto.content),
   emoji |-> OrElse(dto.emoji, DefaultEmoji),
   color |-> dto.color,
   date |-> formatDate(t),
   createdAt |-> toISOString(t),
   updatedAt |-> toISOString(t),
   categoryId |-> OrElse(dto.categoryId, NULL),
   userId |-> OrElse(dto.userId, NULL)]

\* the same with `noteData.categoryId ?? existingNote.categoryId`
MergeNoteFallback(existing, dto, t) ==
  [existing EXCEPT
     !.title = IF dto.title = UndefinedText THEN existing.title ELSE trim(dto.title),
     !.content = IF dto.content = UndefinedText THEN existing.content
                 ELSE trim(dto.content),
     !.emoji = IF dto.emoji \in {Undefined, NULL} THEN existing.emoji ELSE dto.emoji,
     !.color = IF dto.color \in {Undefined, NULL} THEN existing.color ELSE dto.color,
     !.categoryId = IF dto.categoryId \in {Undefined, NULL}
                      THEN existing.categoryId
                    ELSE dto.categoryId,
     !.date = formatDate(t),
     !.updatedAt = toISOString(t)]

\* the spread of existingNote overridden by the fields of the UpdateNoteDTO
MergeNote(existing, dto, t) ==
  [existing EXCEPT
     !.title = IF dto.title = UndefinedText THEN existing.title ELSE trim(dto.title),
     !.content = IF dto.content = UndefinedText THEN existing.content
                 ELSE trim(dto.content),
     !.emoji = IF dto.emoji \in {Undefined, NULL} THEN existing.emoji ELSE dto.emoji,
     !.color = IF dto.color \in {Undefined, NULL} THEN existing.color ELSE dto.color,
     !.categoryId = IF dto.categoryId # Undefined THEN dto.categoryId
                    ELSE existing.categoryId,
     !.date = formatDate(t),
     !.updatedAt = toISOString(t)]

\* UPDATE notes SET content, emoji, color, date, updatedAt, categoryId
\* WHERE id = ?
SqlUpdateNoteKeepsTitle(table, id, note) ==
  [i \in 1..Len(table) |->
     IF table[i].id = id
       THEN [table[i] EXCEPT !.content = note.content,
                             !.emoji = note.emoji, !.color = note.color,
                             !.date = note.date, !.updatedAt = note.updatedAt,
                             !.categoryId = note.categoryId]
       ELSE table[i]]

\* UPDATE notes SET title, content, emoji, color, date, updatedAt, categoryId
\* WHERE id = ?
SqlUpdateNote(table, id, note) ==
  [i \in 1..Len(table) |->
     IF table[i].id = id
       THEN [table[i] EXCEPT !.title = note.title, !.content = note.content,
                             !.emoji = note.emoji, !.color = note.color,
                             !.date = note.date, !.updatedAt = note.updatedAt,
                             !.categoryId = note.categoryId]
       ELSE table[i]]

\* DELETE FROM notes WHERE title = ?
SqlDeleteNoteWrongColumn(table, id) == SelectSeq(table, LAMBDA row : row.title # id)

SqlDeleteNote(table, id) == SelectSeq(table, LAMBDA row : row.id # id)

\* searchTerm of searchNotes
SearchTerm(query) == trim(toLowerCase(query))

\* WHERE (LOWER(title) LIKE ? OR LOWER(content) LIKE ?) with `%${searchTerm}%`
SearchMatches(row, searchTerm) ==
  LET searchPattern == <<"%">> \o searchTerm \o <<"%">>
  IN  \/ LIKE(LOWER(row.title), searchPattern)
      \/ LIKE(LOWER(row.content), searchPattern)

SelectSearch(table, searchTerm, userId) ==
  OrderByUpdatedAtDesc(
    SelectSeq(WhereUserId(table, userId),
              LAMBDA row : SearchMatches(row, searchTerm)))

MapRowToNote(rows) == [i \in 1..Len(rows) |-> rowToNote(rows[i])]

ErrTitleEmpty == "El título no puede estar vacío"
ErrNotFound == "Nota no encontrada"
ErrLoadNote == "No se pudo cargar la nota"
ErrLoadNotes == "No se pudieron cargar las notas"
ErrSearch == "No se pudo realizar la búsqueda"

-----------------------------------------------------------------------------
(* Repository operations (services/notesService.ts) *)

\* every id generateId can return within the bounds, and one it cannot
NoteIdInputs ==
  {generateId(t, r) : t \in 0..MaxTime, r \in RandomSuffixes} \cup {MissingRef}

\* if (!noteData.title)
TitleIsEmptyUntrimmed(noteData) == noteData.title = <<>>

\* if (!noteData.title.trim())
TitleIsEmpty(noteData) == trim(noteData.title) = <<>>

\* the INSERT with newNote.content and newNote.title bound in the other order
SqlInsertNoteSwapped(table, note) ==
  Append(table, [note EXCEPT !.title = note.content, !.content = note.title])

\* INSERT INTO notes (id, title, content, emoji, color, date, createdAt,
\* updatedAt, categoryId, userId) VALUES (?, ?, ?, ?, ?, ?, ?, ?, ?, ?)
SqlInsertNote(table, note) ==
  Append(table,
         [id |-> note.id, title |-> note.title, content |-> note.content,
          emoji |-> note.emoji, color |-> note.color, date |-> note.date,
          createdAt |-> note.createdAt, updatedAt |-> note.updatedAt,
          categoryId |-> note.categoryId, userId |-> note.userId])

\* The repository functions: the outcome of a call made now on the tables as
\* they are.  t and r are what new Date() and Math.random() gave the call.
createNote(noteData, t, r, dbFails) ==
  LET newNote == NewNote(noteData, t, r)
  IN  IF TitleIsEmpty(noteData)
        THEN Rejected("createNote", noteData, ErrTitleEmpty, notes, 0)
      ELSE IF dbFails
        THEN Rejected("createNote", noteData, SqliteError, notes, 1)
      ELSE IF ~PrimaryKeyFree(notes, newNote.id)
              \/ (foreignKeys /\ ~ForeignKeysHold(newNote, categories, users))
        THEN Rejected("createNote", noteData, SqliteConstraint, notes, 0)
      ELSE Resolved("createNote", noteData, newNote, notes)

getNoteById(id, dbFails) ==
  IF dbFails
    THEN Rejected("getNoteById", id, ErrLoadNote, notes, 1)
    ELSE Resolved("getNoteById", id, SelectNoteById(notes, id), notes)

\* updateNote with the row of the table as it is now in the place of the
\* note that its getNoteById returned
updateNoteReread(existingNote, noteData, t, failAt) ==
  LET current == SelectNoteById(notes, noteData.id)
      updatedNote == MergeNote(current, noteData, t)
  IN  IF current = NullNote
        THEN Rejected("updateNote", noteData, ErrNotFound, notes, 0)
      ELSE IF failAt = 2
        THEN Rejected("updateNote", noteData, SqliteError, notes, 2)
      ELSE IF foreignKeys /\ ~ForeignKeysHold(updatedNote, categories, users)
        THEN Rejected("updateNote", noteData, SqliteConstraint, notes, 0)
      ELSE Resolved("updateNote", noteData, updatedNote, notes)

\* updateNote after `await getNoteById(noteData.id)` returned existingNote
updateNoteFrom(existingNote, noteData, t, failAt) ==
  LET updatedNote == MergeNote(existingNote, noteData, t)
  IN  IF existingNote = NullNote
        THEN Rejected("updateNote", noteData, ErrNotFound, notes, 0)
      ELSE IF failAt = 2
        THEN Rejected("updateNote", noteData, SqliteError, notes, 2)
      ELSE IF foreignKeys /\ ~ForeignKeysHold(updatedNote, categories, users)
        THEN Rejected("updateNote", noteData, SqliteConstraint, notes, 0)
      ELSE Resolved("updateNote", noteData, updatedNote, notes)

\* failAt: 0 no database call fails, 1 the SELECT of getNoteById fails,
\* 2 the UPDATE fails
updateNote(noteData, t, failAt) ==
  IF failAt = 1
    THEN Rejected("updateNote", noteData, ErrLoadNote, notes, 1)
    ELSE updateNoteFrom(SelectNoteById(notes, noteData.id), noteData, t, failAt)

\* failAt: 0 no database call fails, 1 the SELECT of getNoteById fails,
\* 2 the DELETE fails
deleteNote(id, failAt) ==
  IF failAt = 1
    THEN Rejected("deleteNote", id, ErrLoadNote, notes, 1)
  ELSE IF SelectNoteById(notes, id) = NullNote
    THEN Rejected("deleteNote", id, ErrNotFound, notes, 0)
  ELSE IF failAt = 2
    THEN Rejected("deleteNote", id, SqliteError, notes, 2)
  ELSE Resolved("deleteNote", id, Void, notes)

getAllNotes(userId, dbFails) ==
  IF dbFails
    THEN Rejected("getAllNotes", userId, ErrLoadNotes, notes, 1)
    ELSE Resolved("getAllNotes", userId,
                  MapRowToNote(SelectAllNotes(notes, userId)), notes)

searchNotes(query, userId, dbFails) ==
  LET searchTerm == SearchTerm(query)
      arg == [query |-> query, userId |-> userId]
  IN  IF searchTerm = <<>>
        THEN [getAllNotes(userId, dbFails) EXCEPT !.op = "searchNotes", !.arg = arg]
      ELSE IF dbFails
        THEN Rejected("searchNotes", arg, ErrSearch, notes, 1)
      ELSE Resolved("searchNotes", arg,
                    MapRowToNote(SelectSearch(notes, searchTerm, userId)), notes)

\* the notes table once the statement of a call that resolved has run
NotesAfter(outcome) ==
  IF ~outcome.ok THEN notes
  ELSE CASE outcome.op = "createNote" -> SqlInsertNote(notes, outcome.val)
         [] outcome.op = "updateNote" ->
              SqlUpdateNote(notes, outcome.arg.id, outcome.val)
         [] outcome.op = "deleteNote" -> SqlDeleteNote(notes, outcome.arg)
         [] OTHER -> notes

\* tracked: whether the call is recorded in the session's issued ids
CreateNoteOf(dtos, tracked) ==
  \E noteData \in dtos, r \in RandomSuffixes, dbFails \in BOOLEAN :
    LET outcome == createNote(noteData, now, r, dbFails)
    IN  /\ Len(notes) < MaxNotes
        /\ ret' = outcome
        /\ notes' = NotesAfter(outcome)
        /\ issuedIds' = IF tracked /\ outcome.ok
                          THEN issuedIds \cup {outcome.val.id}
                        ELSE issuedIds
        /\ reusedIds' = IF tracked /\ outcome.ok
                          THEN reusedIds \cup ({outcome.val.id} \cap issuedIds)
                        ELSE reusedIds
        /\ UNCHANGED <<categories, users, foreignKeys, now, gen, controller,
                       boot>>

CreateNote == CreateNoteOf(CreateInputs, FALSE)

\* the call right before was the createNote or the deleteNote of this id
FollowsWriteOf(id) ==
  /\ ret.ok
  /\ \/ ret.op = "createNote" /\ ret.val.id = id
     \/ ret.op = "deleteNote" /\ ret.arg = id

GetNoteById ==
  \E id \in NoteIdInputs, dbFails \in BOOLEAN :
    LET outcome == getNoteById(id, dbFails)
    IN  /\ ret' = IF outcome.ok /\ FollowsWriteOf(id)
                    THEN [outcome EXCEPT !.prev = [op |-> ret.op, val |-> ret.val]]
                    ELSE outcome
        /\ UNCHANGED <<database, now, session, gen, controller, boot>>

UpdateNoteOf(dtos) ==
  \E id \in NoteIdInputs, dto \in dtos, failAt \in 0..2 :
    LET noteData == [id |-> id, title |-> dto.title, content |-> dto.content,
                     emoji |-> dto.emoji, color |-> dto.color,
                     categoryId |-> dto.categoryId]
        outcome == updateNote(noteData, now, failAt)
    IN  /\ ret' = outcome
        /\ notes' = NotesAfter(outcome)
        /\ UNCHANGED <<categories, users, foreignKeys, now, session, gen,
                       controller, boot>>

UpdateNote == UpdateNoteOf(UpdateInputs)

DeleteNote ==
  \E id \in NoteIdInputs, failAt \in 0..2 :
    LET outcome == deleteNote(id, failAt)
    IN  /\ ret' = outcome
        /\ notes' = NotesAfter(outcome)
        /\ UNCHANGED <<categories, users, foreignKeys, now, session, gen,
                       controller, boot>>

GetAllNotes ==
  \E userId \in OwnerInputs, dbFails \in BOOLEAN :
    LET outcome == getAllNotes(userId, dbFails)
    IN  /\ ret' = IF outcome.ok /\ ret.op = "getAllNotes" /\ ret.ok
                       /\ ret.arg = userId
                    THEN [outcome EXCEPT !.prev = [op |-> ret.op, val |-> ret.val]]
                    ELSE outcome
        /\ UNCHANGED <<database, now, session, gen, controller, boot>>

SearchNotes ==
  \E query \in QueryInputs, userId \in OwnerInputs \ {""}, dbFails \in BOOLEAN :
    /\ ret' = searchNotes(query, userId, dbFails)
    /\ UNCHANGED <<database, now, session, gen, controller, boot>>

\* INSERT INTO users: only the id of the row is kept
InsertUser ==
  \E userId \in UserIds :
    /\ IF userId \in users
         THEN /\ ret' = Rejected("insertUser", userId, SqliteConstraint, notes, 0)
              /\ UNCHANGED users
         ELSE /\ ret' = Resolved("insertUser", userId, Void, notes)
              /\ users' = users \cup {userId}
    /\ UNCHANGED <<notes, categories, foreignKeys, now, session, gen,
                   controller, boot>>

Next ==
  \/ Tick
  \/ CreateNote
  \/ GetNoteById
  \/ UpdateNote
  \/ DeleteNote

Spec == Init /\ [][Next]_vars

\* One session of creating and deleting notes, with the ids it was given
TrackedCreateNote == CreateNoteOf(CreateInputs, TRUE)

NextIds ==
  \/ Tick
  \/ TrackedCreateNote
  \/ DeleteNote

SpecIds == Init /\ [][NextIds]_vars

\* Listing and searching notes that are created and edited meanwhile
CreateSearchableNote == CreateNoteOf(SearchableInputs, FALSE)

TouchNote == UpdateNoteOf({IdOnly})

NextQuery ==
  \/ Tick
  \/ InsertUser
  \/ CreateSearchableNote
  \/ TouchNote
  \/ GetAllNotes
  \/ SearchNotes

SpecQuery == Init /\ [][NextQuery]_vars

\* The schema at work: users and categories come and go under the notes that
\* reference them
CategoryInputs == { [name |-> "Work", color |-> Undefined, icon |-> Undefined] }

DefaultCategoryColor == "#ffffff"

DefaultCategoryIcon == "folder"

\* CreateNoteDTOs that reference the stored categories and users, or none, or a
\* category that is not stored
LinkedInputs ==
  { [title |-> <<"b">>, content |-> <<>>, emoji |-> "sun", color |-> "#FBCFE8",
     categoryId |-> c, userId |-> u] :
      c \in IdsOf(categories) \cup {Undefined, MissingRef},
      u \in users \cup {Undefined} }

CreateLinkedNote == CreateNoteOf(LinkedInputs, FALSE)

\* updateNote({ id, categoryId })
MoveNote ==
  UpdateNoteOf({CategoryOnly(c) : c \in IdsOf(categories) \cup {NULL, MissingRef}})

CreateCategoryOf(inputs) ==
  \E input \in inputs, r \in RandomSuffixes, dbFails \in BOOLEAN :
    LET id == generateId(now, r)
        row == [id |-> id, name |-> input.name,
                color |-> OrElse(input.color, DefaultCategoryColor),
                icon |-> OrElse(input.icon, DefaultCategoryIcon),
                createdAt |-> toISOString(now)]
        category == [row EXCEPT !.color = input.color, !.icon = input.icon]
    IN  /\ Len(categories) < MaxCategories
        /\ IF dbFails
             THEN /\ ret' = Rejected("createCategory", input, SqliteError, notes, 1)
                  /\ UNCHANGED categories
           ELSE IF ~PrimaryKeyFree(categories, id)
             THEN /\ ret' = Rejected("createCategory", input, SqliteConstraint,
                                     notes, 0)
                  /\ UNCHANGED categories
           ELSE /\ categories' = Append(categories, row)
                /\ ret' = Resolved("createCategory", input, category, notes)
        /\ UNCHANGED <<notes, users, foreignKeys, now, session, gen,
                       controller, boot>>

CreateCategory == CreateCategoryOf(CategoryInputs)

\* DELETE FROM categories WHERE id = ?
DeleteCategory ==
  \E id \in IdsOf(categories) :
    /\ categories' = SelectSeq(categories, LAMBDA row : row.id # id)
    /\ notes' = IF foreignKeys THEN OnDeleteCategory(notes, id) ELSE notes
    /\ ret' = Resolved("deleteCategory", id, Void, notes)
    /\ UNCHANGED <<users, foreignKeys, now, session, gen, controller, boot>>

\* DELETE FROM users WHERE id = ?
DeleteUser ==
  \E userId \in users :
    /\ users' = users \ {userId}
    /\ notes' = IF foreignKeys THEN OnDeleteUser(notes, userId) ELSE notes
    /\ ret' = Resolved("deleteUser", userId, Void, notes)
    /\ UNCHANGED <<categories, foreignKeys, now, session, gen, controller,
                   boot>>

ErrInitialize == "No se pudo inicializar la base de datos"
ErrClear == "No se pudo limpiar la base de datos"
ErrReset == "No se pudo reiniciar la base de datos"

\* PRAGMA foreign_keys = ON and the CREATE ... IF NOT EXISTS statements, which
\* leave the tables that exist as they are
InitializeDatabase ==
  \E dbFails \in BOOLEAN :
    /\ IF dbFails
         THEN /\ ret' = Rejected("initializeDatabase", Void, ErrInitialize, notes, 1)
              /\ UNCHANGED foreignKeys
         ELSE /\ ret' = Resolved("initializeDatabase", Void, Void, notes)
              /\ foreignKeys' = TRUE
    /\ UNCHANGED <<tables, now, session, gen, controller, boot>>

\* failAt: the DELETE statement that fails (0: none); execAsync stops there
ClearDatabase ==
  \E failAt \in 0..3 :
    /\ notes' = IF failAt = 1 THEN notes ELSE <<>>
    /\ categories' = IF failAt \in {1, 2} THEN categories ELSE <<>>
    /\ users' = IF failAt = 0 THEN {} ELSE users
    /\ ret' = IF failAt = 0
                THEN Resolved("clearDatabase", Void, Void, notes)
                ELSE Rejected("clearDatabase", Void, ErrClear, notes, failAt)
    /\ UNCHANGED <<foreignKeys, now, session, gen, controller, boot>>

\* failAt = 2: the first DROP TABLE fails, after PRAGMA foreign_keys = OFF and
\* before PRAGMA foreign_keys = ON, which execAsync then does not reach
ResetDatabase ==
  \E failAt \in {0, 2} :
    /\ IF failAt = 2
         THEN /\ foreignKeys' = FALSE
              /\ ret' = Rejected("resetDatabase", Void, ErrReset, notes, failAt)
              /\ UNCHANGED tables
         ELSE /\ foreignKeys' = TRUE
              /\ notes' = <<>>
              /\ categories' = <<>>
              /\ users' = {}
              /\ ret' = Resolved("resetDatabase", Void, Void, notes)
    /\ UNCHANGED <<now, session, gen, controller, boot>>

NextSchema ==
  \/ InsertUser
  \/ DeleteUser
  \/ CreateCategory
  \/ DeleteCategory
  \/ CreateLinkedNote
  \/ MoveNote
  \/ InitializeDatabase
  \/ ClearDatabase
  \/ ResetDatabase

SpecSchema == Init /\ [][NextSchema]_vars

-----------------------------------------------------------------------------
(* The notes controller (hooks/useNotas.ts) *)

\* new Date(iso).getTime()
getTime(iso) == iso[1] * 10 + iso[2]

\* the list without the sort of updateExistingNote
KeepOrder(list) == list

\* .sort((a, b) => new Date(b.updatedAt).getTime() - new Date(a.updatedAt).getTime())
RECURSIVE SortByUpdatedAt(_)
SortByUpdatedAt(list) ==
  IF list = <<>> THEN <<>>
  ELSE LET last == list[Len(list)]
           rest == SortByUpdatedAt(SubSeq(list, 1, Len(list) - 1))
           k == Cardinality({i \in 1..Len(rest) :
                               getTime(rest[i].updatedAt) >= getTime(last.updatedAt)})
       IN  SubSeq(rest, 1, k) \o <<last>> \o SubSeq(rest, k + 1, Len(rest))

\* prevNotes.map(note => note.id === updatedNote.id ? updatedNote : note)
ReplaceById(list, updatedNote) ==
  [i \in 1..Len(list) |-> IF list[i].id = updatedNote.id THEN updatedNote ELSE list[i]]

\* prevNotes.filter(note => note.id === id)
FilterKeepId(list, id) == SelectSeq(list, LAMBDA note : note.id = id)

\* prevNotes.filter(note => note.id !== id)
FilterOutId(list, id) == SelectSeq(list, LAMBDA note : note.id # id)

ErrCreateDefault == "Error al crear la nota"
ErrUpdateDefault == "Error al actualizar la nota"
ErrDeleteDefault == "Error al eliminar la nota"
ErrRefreshDefault == "Error al cargar las notas"

\* the default message whatever the failure says
ErrorMessageDefault(outcome, fallback) == fallback

\* err.message || <the default message of the operation>
ErrorMessage(outcome, fallback) == OrElse(outcome.err, fallback)

\* a slot is free before its first call and once its call has settled
FreeSlots == {slot \in Slots : calls[slot].pc \in {"idle", "settled"}}

\* the calls take the lowest free slot
NextSlot == CHOOSE slot \in FreeSlots : \A other \in FreeSlots : slot <= other

InFlight(op) == {slot \in Slots \ FreeSlots : calls[slot].op = op}

\* a call up to its await: t and r are what the repository function read from
\* the clock and from Math.random() when it was called
Issue(op, arg, t, r) ==
  calls' = [calls EXCEPT ![NextSlot] =
              [pc |-> "persist", op |-> op, arg |-> arg, t |-> t, r |-> r,
               outcome |-> None]]

HookCreateInputs ==
  { [title |-> <<" ">>, content |-> <<>>, emoji |-> "", color |-> "#BFDBFE",
     categoryId |-> Undefined, userId |-> Undefined],
    [title |-> <<" ", "A", "b", " ">>, content |-> <<" ", "a">>, emoji |-> "",
     color |-> "#BFDBFE", categoryId |-> "", userId |-> Undefined] }

HookIdInputs == IdsOf(hook.notes) \cup IdsOf(notes) \cup {MissingRef}

SearchTexts == { <<>>, <<" ">>, <<"B">> }

\* createNewNote up to `await createNote(noteData)`
CreateNewNoteBegin ==
  \E noteData \in HookCreateInputs, r \in RandomSuffixes :
    /\ FreeSlots # {}
    /\ Len(notes) + Cardinality(InFlight("createNewNote")) < MaxNotes
    /\ hook' = [hook EXCEPT !.error = NULL]
    /\ Issue("createNewNote", noteData, now, r)
    /\ UNCHANGED <<storeVars, gen, boot>>

\* updateExistingNote up to `await updateNote(noteData)`
UpdateExistingNoteBegin ==
  \E id \in HookIdInputs :
    /\ FreeSlots # {}
    /\ hook' = [hook EXCEPT !.error = NULL]
    /\ Issue("updateExistingNote",
             [id |-> id, title |-> ContentOnly.title, content |-> ContentOnly.content,
              emoji |-> ContentOnly.emoji, color |-> ContentOnly.color,
              categoryId |-> ContentOnly.categoryId], 0, "")
    /\ UNCHANGED <<storeVars, gen, boot>>

\* deleteExistingNote up to `await deleteNote(id)`
DeleteExistingNoteBegin ==
  \E id \in HookIdInputs :
    /\ FreeSlots # {}
    /\ hook' = [hook EXCEPT !.error = NULL]
    /\ Issue("deleteExistingNote", id, 0, "")
    /\ UNCHANGED <<storeVars, gen, boot>>

\* refreshNotes up to its await; the search text is the one of the render that
\* made this callback
RefreshNotesBegin ==
  /\ FreeSlots # {}
  /\ hook' = [hook EXCEPT !.isLoading = TRUE, !.error = NULL]
  /\ Issue("refreshNotes", hook.searchQuery, 0, "")
  /\ UNCHANGED <<storeVars, gen, boot>>

\* setSearchQuery(text) with a new text, and the effect that then calls the new
\* refreshNotes
SetSearchQueryOf(texts) ==
  \E text \in texts :
    /\ text # hook.searchQuery
    /\ FreeSlots # {}
    /\ hook' = [hook EXCEPT !.searchQuery = text, !.isLoading = TRUE,
                            !.error = NULL]
    /\ Issue("refreshNotes", text, 0, "")
    /\ UNCHANGED <<storeVars, gen, boot>>

SetSearchQuery == SetSearchQueryOf(SearchTexts)

ClearError ==
  /\ hook.error # NULL
  /\ hook' = [hook EXCEPT !.error = NULL]
  /\ UNCHANGED <<storeVars, gen, calls, boot>>

\* the same with the search text not trimmed before the choice
RepositoryOutcomeUntrimmed(call, fault) ==
  CASE call.op = "createNewNote" -> createNote(call.arg, call.t, call.r, fault # 0)
    [] call.op = "updateExistingNote" -> updateNote(call.arg, now, fault)
    [] call.op = "deleteExistingNote" -> deleteNote(call.arg, fault)
    [] call.op = "refreshNotes" ->
         IF call.arg # <<>>
           THEN searchNotes(call.arg, Undefined, fault # 0)
           ELSE getAllNotes(Undefined, fault # 0)

\* what the repository answers to the call of a slot, on the tables as they are
RepositoryOutcome(call, fault) ==
  CASE call.op = "createNewNote" -> createNote(call.arg, call.t, call.r, fault # 0)
    [] call.op = "updateExistingNote" -> updateNote(call.arg, now, fault)
    [] call.op = "deleteExistingNote" -> deleteNote(call.arg, fault)
    [] call.op = "refreshNotes" ->
         IF trim(call.arg) # <<>>
           THEN searchNotes(call.arg, Undefined, fault # 0)
           ELSE getAllNotes(Undefined, fault # 0)

\* the repository function of a call runs its statements and settles; faults:
\* which database call may fail (0: none)
PersistOf(faults) ==
  \E slot \in Slots, fault \in faults :
    /\ calls[slot].pc = "persist"
    /\ fault = 2 => calls[slot].op \in {"updateExistingNote", "deleteExistingNote"}
    /\ LET outcome == RepositoryOutcome(calls[slot], fault)
       IN  /\ notes' = NotesAfter(outcome)
           /\ calls' = [calls EXCEPT ![slot].pc = "complete",
                                     ![slot].outcome = outcome]
    /\ UNCHANGED <<categories, users, foreignKeys, now, ret, session, gen, hook,
                   boot>>

Persist == PersistOf(0..2)

\* the promise of a call resolves with val
HookResolved(slot, val) ==
  calls' = [calls EXCEPT ![slot] =
              [pc |-> "settled", op |-> calls[slot].op, arg |-> calls[slot].arg,
               fault |-> calls[slot].outcome.fault,
               ok |-> TRUE, err |-> "", val |-> val]]

\* the promise of a call rejects with new Error(err)
HookRejected(slot, err) ==
  calls' = [calls EXCEPT ![slot] =
              [pc |-> "settled", op |-> calls[slot].op, arg |-> calls[slot].arg,
               fault |-> calls[slot].outcome.fault,
               ok |-> FALSE, err |-> err, val |-> Void]]

\* createNewNote that puts the new note in the list only when the search text
\* is empty or the note contains it
CreateNewNoteEndFiltered(slot) ==
  LET outcome == calls[slot].outcome
      searchTerm == SearchTerm(hook.searchQuery)
  IN  IF outcome.ok
        THEN /\ hook' = [hook EXCEPT
                           !.notes = IF \/ searchTerm = <<>>
                                        \/ SearchMatches(outcome.val, searchTerm)
                                       THEN <<outcome.val>> \o hook.notes
                                       ELSE hook.notes]
             /\ HookResolved(slot, outcome.val)
        ELSE /\ hook' = [hook EXCEPT
                           !.error = ErrorMessage(outcome, ErrCreateDefault)]
             /\ HookRejected(slot, ErrorMessage(outcome, ErrCreateDefault))

\* createNewNote that sorts the list after it put the new note in
CreateNewNoteEndSorted(slot) ==
  LET outcome == calls[slot].outcome
  IN  IF outcome.ok
        THEN /\ hook' = [hook EXCEPT
                           !.notes = SortByUpdatedAt(<<outcome.val>> \o hook.notes)]
             /\ HookResolved(slot, outcome.val)
        ELSE /\ hook' = [hook EXCEPT
                           !.error = ErrorMessage(outcome, ErrCreateDefault)]
             /\ HookRejected(slot, ErrorMessage(outcome, ErrCreateDefault))

\* createNewNote after its await
CreateNewNoteEnd(slot) ==
  LET outcome == calls[slot].outcome
  IN  IF outcome.ok
        THEN /\ hook' = [hook EXCEPT !.notes = <<outcome.val>> \o hook.notes]
             /\ HookResolved(slot, outcome.val)
        ELSE /\ hook' = [hook EXCEPT
                           !.error = ErrorMessage(outcome, ErrCreateDefault)]
             /\ HookRejected(slot, ErrorMessage(outcome, ErrCreateDefault))

\* updateExistingNote after its await
UpdateExistingNoteEnd(slot) ==
  LET outcome == calls[slot].outcome
  IN  IF outcome.ok
        THEN /\ hook' = [hook EXCEPT
                           !.notes = SortByUpdatedAt(
                                       ReplaceById(hook.notes, outcome.val))]
             /\ HookResolved(slot, outcome.val)
        ELSE /\ hook' = [hook EXCEPT
                           !.error = ErrorMessage(outcome, ErrUpdateDefault)]
             /\ HookRejected(slot, ErrorMessage(outcome, ErrUpdateDefault))

\* deleteExistingNote after its await
DeleteExistingNoteEnd(slot) ==
  LET outcome == calls[slot].outcome
  IN  IF outcome.ok
        THEN /\ hook' = [hook EXCEPT
                           !.notes = FilterOutId(hook.notes, calls[slot].arg)]
             /\ HookResolved(slot, Void)
        ELSE /\ hook' = [hook EXCEPT
                           !.error = ErrorMessage(outcome, ErrDeleteDefault)]
             /\ HookRejected(slot, ErrorMessage(outcome, ErrDeleteDefault))

\* refreshNotes that drops an answer for a search text that is no longer the
\* current one
RefreshNotesEndLatest(slot) ==
  LET outcome == calls[slot].outcome
  IN  /\ hook' = IF calls[slot].arg # hook.searchQuery
                   THEN [hook EXCEPT !.isLoading = FALSE]
                 ELSE IF outcome.ok
                   THEN [hook EXCEPT !.notes = outcome.val, !.isLoading = FALSE]
                   ELSE [hook EXCEPT
                           !.error = ErrorMessage(outcome, ErrRefreshDefault),
                           !.isLoading = FALSE]
      /\ HookResolved(slot, Void)

\* refreshNotes after its await: try, catch and finally
RefreshNotesEnd(slot) ==
  LET outcome == calls[slot].outcome
  IN  /\ hook' = IF outcome.ok
                   THEN [hook EXCEPT !.notes = outcome.val, !.isLoading = FALSE]
                   ELSE [hook EXCEPT
                           !.error = ErrorMessage(outcome, ErrRefreshDefault),
                           !.isLoading = FALSE]
      /\ HookResolved(slot, Void)

\* the continuation of a call whose repository function has settled
Complete ==
  \E slot \in Slots :
    /\ calls[slot].pc = "complete"
    /\ CASE calls[slot].op = "createNewNote" -> CreateNewNoteEnd(slot)
         [] calls[slot].op = "updateExistingNote" -> UpdateExistingNoteEnd(slot)
         [] calls[slot].op = "deleteExistingNote" -> DeleteExistingNoteEnd(slot)
         [] calls[slot].op = "refreshNotes" -> RefreshNotesEnd(slot)
    /\ UNCHANGED <<storeVars, gen, boot>>

\* no call is in flight: the caller awaited the one before
Settled == FreeSlots = Slots

AwaitedCreateNewNote == Settled /\ CreateNewNoteBegin

AwaitedUpdateExistingNote == Settled /\ UpdateExistingNoteBegin

AwaitedDeleteExistingNote == Settled /\ DeleteExistingNoteBegin

AwaitedRefreshNotes == Settled /\ RefreshNotesBegin

AwaitedSetSearchQuery == Settled /\ SetSearchQuery

\* a caller that awaits every call before it makes the next one
NextHook ==
  \/ Tick
  \/ AwaitedCreateNewNote
  \/ AwaitedUpdateExistingNote
  \/ AwaitedDeleteExistingNote
  \/ AwaitedRefreshNotes
  \/ AwaitedSetSearchQuery
  \/ ClearError
  \/ Persist
  \/ Complete

SpecHook == Init /\ [][NextHook]_vars

\* callers of createNewNote that do not wait for one another
NextOverlap ==
  \/ Tick
  \/ CreateNewNoteBegin
  \/ Persist
  \/ Complete

SpecOverlap == Init /\ [][NextOverlap]_vars

-----------------------------------------------------------------------------
(* Calls of the hook that overlap, with a search text *)

\* the journal's first note, written and awaited before any other call
CreateFirstNote == notes = <<>> /\ AwaitedCreateNewNote

\* the search texts typed: none, one that no note contains, one that a note
\* contains
ShelfTexts == { <<>>, <<"c">>, <<"B", " ">> }

TypeSearchText == SetSearchQueryOf(ShelfTexts)

\* the repository function of a call settles, and no database call fails
Answer == PersistOf({0})

\* createNewNote and refreshNotes from callers that do not wait for one
\* another, updateExistingNote and deleteExistingNote from callers that wait,
\* on a storage that does not fail
NextShelf ==
  \/ Tick
  \/ CreateNewNoteBegin
  \/ RefreshNotesBegin
  \/ AwaitedUpdateExistingNote
  \/ AwaitedDeleteExistingNote
  \/ Answer
  \/ Complete

SpecShelf == Init /\ [][NextShelf]_vars

\* createNewNote from callers that do not wait for one another, refreshNotes,
\* updateExistingNote and deleteExistingNote from callers that wait
NextOrder ==
  \/ Tick
  \/ CreateNewNoteBegin
  \/ AwaitedRefreshNotes
  \/ AwaitedUpdateExistingNote
  \/ AwaitedDeleteExistingNote
  \/ Persist
  \/ Complete

SpecOrder == Init /\ [][NextOrder]_vars

\* the search text changes while calls are in flight; the notes are written,
\* changed and deleted by callers that wait for the calls before theirs
NextReload ==
  \/ CreateFirstNote
  \/ AwaitedUpdateExistingNote
  \/ AwaitedDeleteExistingNote
  \/ TypeSearchText
  \/ Persist
  \/ Complete

SpecReload == Init /\ [][NextReload]_vars

-----------------------------------------------------------------------------
(* Importing a backup (importNotes) *)

\* a Note of a backup, as exportNotes returns them
BackupNote(id, content, t, categoryId) ==
  [id |-> id, title |-> <<"A", "b">>, content |-> content, emoji |-> "sun",
   color |-> "#FEF3C7", date |-> formatDate(t), createdAt |-> toISOString(t),
   updatedAt |-> toISOString(t + 1), categoryId |-> categoryId,
   userId |-> NULL]

\* Backups: a note whose id a createNote of this store can give too and a
\* foreign one; the same id twice; a note of a category that this store does
\* not have, before a foreign one; a note stamped as updated before it was
\* created
ImportBatches ==
  { <<BackupNote(generateId(0, "k3"), <<"a">>, 0, NULL),
      BackupNote("7-b1", <<>>, 0, Undefined)>>,
    <<BackupNote("7-b1", <<"a">>, 0, NULL),
      BackupNote("7-b1", <<"B">>, 1, NULL)>>,
    <<BackupNote("7-c2", <<"a">>, 0, MissingRef),
      BackupNote("7-b1", <<"a">>, 0, NULL)>>,
    <<[BackupNote("7-d4", <<>>, 1, NULL) EXCEPT !.updatedAt = toISOString(0)]>> }

ErrImport == "No se pudieron importar las notas"

\* the parameters of the INSERT of importNotes
ImportedRow(note) ==
  [note EXCEPT !.categoryId = OrElse(note.categoryId, NULL),
               !.userId = OrElse(note.userId, NULL)]

\* `for (const note of notes)` from the i-th note on.  failAt: 0 no database
\* call fails, k the k-th database call from here on fails
RECURSIVE ImportFrom(_, _, _, _)
ImportFrom(table, batch, i, failAt) ==
  IF i > Len(batch) THEN [ok |-> TRUE, table |-> table, fault |-> 0]
  ELSE IF failAt = 1 THEN [ok |-> FALSE, table |-> table, fault |-> 1]
  ELSE LET exists == SelectNoteById(table, batch[i].id)
           left == IF failAt = 0 THEN 0 ELSE failAt - 1
           row == ImportedRow(batch[i])
       IN  IF exists # NullNote THEN ImportFrom(table, batch, i + 1, left)
           ELSE IF left = 1 THEN [ok |-> FALSE, table |-> table, fault |-> 1]
           ELSE IF foreignKeys /\ ~ForeignKeysHold(row, categories, users)
             THEN [ok |-> FALSE, table |-> table, fault |-> 0]
           ELSE ImportFrom(SqlInsertNote(table, row), batch, i + 1,
                           IF left = 0 THEN 0 ELSE left - 1)

importNotes(batch, failAt) ==
  LET done == ImportFrom(notes, batch, 1, failAt)
  IN  IF done.ok THEN Resolved("importNotes", batch, Void, notes)
      ELSE Rejected("importNotes", batch, ErrImport, notes, done.fault)

ImportNotes ==
  \E batch \in ImportBatches, failAt \in 0..2 :
    LET outcome == importNotes(batch, failAt)
        imported == ImportFrom(notes, batch, 1, failAt).table
    IN  /\ Len(imported) <= MaxNotes
        /\ ret' = IF ret.op = "importNotes" /\ ret.ok /\ ret.arg = batch
                    THEN [outcome EXCEPT !.prev = [op |-> ret.op, val |-> ret.val]]
                    ELSE outcome
        /\ notes' = imported
        /\ UNCHANGED <<categories, users, foreignKeys, now, session, gen,
                       controller, boot>>

\* a store that is written to and restored from backups
NextImport ==
  \/ Tick
  \/ CreateNote
  \/ UpdateNote
  \/ DeleteNote
  \/ ImportNotes

SpecImport == Init /\ [][NextImport]_vars

-----------------------------------------------------------------------------
(* Example notes at startup (seedDatabase, app/_layout.tsx) *)

\* sampleNotes; every text is one atom, every emoji an ASCII name
SampleNote(title, content, emoji, color) ==
  [title |-> <<title>>, content |-> <<content>>, emoji |-> emoji,
   color |-> color, categoryId |-> Undefined, userId |-> Undefined]

sampleNotes ==
  << SampleNote("An amazing story", "Once upon a time ...", "book", "#BFDBFE"),
     SampleNote("Shopping List", "Milk, Bread, Eggs, ...", "cart", "#FEF3C7"),
     SampleNote("Plan for today", "Meeting at 3pm ...", "clipboard", "#E9D5FF"),
     SampleNote("Work Plan", "Review code, ...", "briefcase", "#BBF7D0"),
     SampleNote("Gym workout", "Chest and triceps ...", "muscle", "#FBCFE8") >>

\* the suffixes Math.random() gives the creates of the loop
SeedSuffixes == RandomSuffixes \cup {"a1"}

\* getNotesCount(): `result?.count || 0`, and 0 when the query fails
getNotesCount(dbFails) == IF dbFails THEN 0 ELSE Len(notes)

\* getDatabaseInfo().notesCount: 0 when a query fails
notesCount(dbFails) == IF dbFails THEN 0 ELSE Len(notes)

\* seedDatabase up to its loop
SeedDatabaseCall(countFails) ==
  IF getNotesCount(countFails) > 0
    THEN /\ ret' = Resolved("seedDatabase", Void, Void, notes)
         /\ UNCHANGED boot
    ELSE /\ boot' = [pc |-> "seeding", i |-> 1, before |-> notes,
                     fault |-> IF countFails THEN 1 ELSE 0]
         /\ UNCHANGED ret

SeedDatabase ==
  \E countFails \in BOOLEAN :
    /\ boot.pc = "idle"
    /\ SeedDatabaseCall(countFails)
    /\ UNCHANGED <<database, now, session, gen, controller>>

\* setupDatabase of the root layout.  failAt: 0 no database call fails,
\* 1 initializeDatabase fails, 2 a count of getDatabaseInfo fails, 3 the count
\* of seedDatabase fails
SetupDatabase ==
  \E failAt \in 0..3 :
    /\ boot.pc = "idle"
    /\ IF failAt = 1
         THEN /\ ret' = Rejected("initializeDatabase", Void, ErrInitialize, notes, 1)
              /\ UNCHANGED <<foreignKeys, boot>>
         ELSE /\ foreignKeys' = TRUE
              /\ IF notesCount(failAt = 2) = 0
                   THEN SeedDatabaseCall(failAt = 3)
                   ELSE /\ ret' = Resolved("initializeDatabase", Void, Void, notes)
                        /\ UNCHANGED boot
    /\ UNCHANGED <<tables, now, session, gen, controller>>

\* `await createNote(noteData)` of the loop, and the end of seedDatabase after
\* the last one or after one that throws
SeedCreate ==
  \E r \in SeedSuffixes, dbFails \in BOOLEAN :
    LET outcome == createNote(sampleNotes[boot.i], now, r, dbFails)
        fault == IF dbFails THEN 1 ELSE boot.fault
    IN  /\ boot.pc = "seeding"
        /\ notes' = NotesAfter(outcome)
        /\ IF ~outcome.ok
             THEN /\ ret' = Rejected("seedDatabase", Void, outcome.err,
                                     boot.before, fault)
                  /\ boot' = [pc |-> "idle"]
           ELSE IF boot.i = Len(sampleNotes)
             THEN /\ ret' = [Resolved("seedDatabase", Void, Void, boot.before)
                               EXCEPT !.fault = fault]
                  /\ boot' = [pc |-> "idle"]
           ELSE /\ boot' = [boot EXCEPT !.i = boot.i + 1, !.fault = fault]
                /\ UNCHANGED ret
        /\ UNCHANGED <<categories, users, foreignKeys, now, session, gen,
                       controller>>

NextSeed ==
  \/ Tick
  \/ SeedDatabase
  \/ SetupDatabase
  \/ SeedCreate

SpecSeed == Init /\ [][NextSeed]_vars

-----------------------------------------------------------------------------
(* Editing notes and their categories *)

\* createCategory(name), createCategory(name, color, icon)
StyledCategoryInputs ==
  CategoryInputs \cup { [name |-> "Home", color |-> "#BBF7D0", icon |-> "house"] }

CreateStyledCategory == CreateCategoryOf(StyledCategoryInputs)

\* ORDER BY createdAt DESC; rows with equal createdAt keep their rowid order
RECURSIVE OrderByCreatedAtDesc(_)
OrderByCreatedAtDesc(rows) ==
  IF rows = <<>> THEN <<>>
  ELSE LET last == rows[Len(rows)]
           rest == OrderByCreatedAtDesc(SubSeq(rows, 1, Len(rows) - 1))
           k == Cardinality({i \in 1..Len(rest) :
                               ~TextLess(rest[i].createdAt, last.createdAt)})
       IN  SubSeq(rest, 1, k) \o <<last>> \o SubSeq(rest, k + 1, Len(rest))

\* SELECT * FROM categories ORDER BY createdAt DESC
GetAllCategories ==
  \E dbFails \in BOOLEAN :
    LET outcome == IF dbFails
                     THEN Rejected("getAllCategories", Void, SqliteError, notes, 1)
                     ELSE Resolved("getAllCategories", Void,
                                   OrderByCreatedAtDesc(categories), notes)
    IN  /\ ret' = IF outcome.ok /\ ret.ok /\ ret.op = "createCategory"
                    THEN [outcome EXCEPT !.prev = [op |-> ret.op, val |-> ret.val]]
                    ELSE outcome
        /\ UNCHANGED <<database, now, session, gen, controller, boot>>

TitleOnly(title) ==
  [title |-> title, content |-> UndefinedText, emoji |-> Undefined,
   color |-> Undefined, categoryId |-> Undefined]

\* UpdateNoteDTOs without the id: a blank title, a title, the content and the
\* look, and the category (one that is stored, or null)
EditInputs ==
  { TitleOnly(<<" ">>), TitleOnly(<<"c", " ">>),
    [title |-> UndefinedText, content |-> <<" ", "B">>, emoji |-> "moon",
     color |-> "#E9D5FF", categoryId |-> Undefined] }
  \cup {CategoryOnly(c) : c \in IdsOf(categories) \cup {NULL}}

EditNote == UpdateNoteOf(EditInputs)

NextCategories ==
  \/ Tick
  \/ CreateStyledCategory
  \/ GetAllCategories
  \/ DeleteCategory
  \/ CreateLinkedNote

SpecCategories == Init /\ [][NextCategories]_vars

NextEdit ==
  \/ CreateCategory
  \/ CreateLinkedNote
  \/ EditNote

SpecEdit == Init /\ [][NextEdit]_vars

-----------------------------------------------------------------------------
(* Updates of one note that overlap *)

\* UpdateNoteDTOs without the id: only the title, only the content
RaceInputs == { TitleOnly(<<"c", " ">>), ContentOnly }

\* updateExistingNote up to the `await getNoteById(noteData.id)` of updateNote
UpdateExistingNoteCall ==
  \E id \in IdsOf(notes), dto \in RaceInputs :
    /\ FreeSlots # {}
    /\ hook' = [hook EXCEPT !.error = NULL]
    /\ calls' = [calls EXCEPT ![NextSlot] =
                   [pc |-> "read", op |-> "updateExistingNote",
                    arg |-> [id |-> id, title |-> dto.title,
                             content |-> dto.content, emoji |-> dto.emoji,
                             color |-> dto.color, categoryId |-> dto.categoryId],
                    t |-> 0, r |-> "", outcome |-> None, existing |-> NullNote]]
    /\ UNCHANGED <<storeVars, gen, boot>>

\* the SELECT of getNoteById runs and updateNote has its existingNote
ReadNote ==
  \E slot \in Slots, dbFails \in BOOLEAN :
    /\ calls[slot].pc = "read"
    /\ calls' = [calls EXCEPT ![slot] =
                   IF dbFails
                     THEN [calls[slot] EXCEPT
                             !.pc = "complete",
                             !.outcome = Rejected("updateNote", calls[slot].arg,
                                                  ErrLoadNote, notes, 1)]
                     ELSE [calls[slot] EXCEPT
                             !.pc = "write",
                             !.existing = SelectNoteById(notes,
                                                         calls[slot].arg.id)]]
    /\ UNCHANGED <<storeVars, gen, hook, boot>>

\* updateNote merges into the existingNote it read, stamps it with the clock
\* and runs its UPDATE
WriteNote ==
  \E slot \in Slots, dbFails \in BOOLEAN :
    /\ calls[slot].pc = "write"
    /\ LET outcome == updateNoteFrom(calls[slot].existing, calls[slot].arg, now,
                                     IF dbFails THEN 2 ELSE 0)
       IN  /\ notes' = NotesAfter(outcome)
           /\ calls' = [calls EXCEPT ![slot].pc = "complete",
                                     ![slot].outcome = outcome]
    /\ UNCHANGED <<categories, users, foreignKeys, now, ret, session, gen, hook,
                   boot>>

NextRace ==
  \/ Tick
  \/ CreateFirstNote
  \/ Persist
  \/ UpdateExistingNoteCall
  \/ ReadNote
  \/ WriteNote
  \/ Complete

SpecRace == Init /\ [][NextRace]_vars

-----------------------------------------------------------------------------
(* The start of the app, await by await (setupDatabase, app/_layout.tsx) *)

\* the root layout mounts: useState(false) for isDbReady, and its effect calls
\* setupDatabase, which runs up to `await initializeDatabase()`
MountRootLayout ==
  /\ boot.pc = "idle"
  /\ boot' = [pc |-> "initialize", isDbReady |-> FALSE, initialized |-> "pending",
              seedCalled |-> FALSE, i |-> 0]
  /\ UNCHANGED <<storeVars, gen, controller>>

\* the catch block without its setIsDbReady(true)
SetupCatchKeepsLoading(b) == [b EXCEPT !.pc = "done"]

\* the catch block of setupDatabase: setIsDbReady(true)
SetupCatch(b) == [b EXCEPT !.pc = "done", !.isDbReady = TRUE]

\* the end of the try block of setupDatabase: setIsDbReady(true)
SetupReady(b) == [b EXCEPT !.pc = "done", !.isDbReady = TRUE]

\* `await initializeDatabase()` settles
AwaitInitializeDatabase ==
  \E dbFails \in BOOLEAN :
    /\ boot.pc = "initialize"
    /\ IF dbFails
         THEN /\ boot' = SetupCatch([boot EXCEPT !.initialized = "failed"])
              /\ UNCHANGED foreignKeys
         ELSE /\ boot' = [boot EXCEPT !.pc = "info", !.initialized = "done"]
              /\ foreignKeys' = TRUE
    /\ UNCHANGED <<tables, now, ret, session, gen, controller>>

\* `await getDatabaseInfo()` settles, and setupDatabase calls seedDatabase when
\* the count is 0
AwaitGetDatabaseInfo ==
  \E dbFails \in BOOLEAN :
    /\ boot.pc = "info"
    /\ boot' = IF notesCount(dbFails) = 0
                 THEN [boot EXCEPT !.pc = "seed", !.seedCalled = TRUE]
                 ELSE SetupReady(boot)
    /\ UNCHANGED <<storeVars, gen, controller>>

\* `await getNotesCount()` of seedDatabase settles
AwaitGetNotesCount ==
  \E dbFails \in BOOLEAN :
    /\ boot.pc = "seed"
    /\ boot' = IF getNotesCount(dbFails) > 0
                 THEN SetupReady(boot)
                 ELSE [boot EXCEPT !.pc = "seeding", !.i = 1]
    /\ UNCHANGED <<storeVars, gen, controller>>

\* `await createNote(noteData)` of the loop of seedDatabase settles; seedDatabase
\* rethrows a failure, and setupDatabase catches it
AwaitSeedCreate ==
  \E r \in SeedSuffixes, dbFails \in BOOLEAN :
    LET outcome == createNote(sampleNotes[boot.i], now, r, dbFails)
    IN  /\ boot.pc = "seeding"
        /\ notes' = NotesAfter(outcome)
        /\ boot' = IF ~outcome.ok THEN SetupCatch(boot)
                   ELSE IF boot.i = Len(sampleNotes) THEN SetupReady(boot)
                   ELSE [boot EXCEPT !.i = boot.i + 1]
        /\ UNCHANGED <<categories, users, foreignKeys, now, ret, session, gen,
                       controller>>

\* a note written in an earlier run of the app
EarlierNote == boot.pc = "idle" /\ CreateNote

\* the awaits of setupDatabase
SetupStep ==
  \/ AwaitInitializeDatabase
  \/ AwaitGetDatabaseInfo
  \/ AwaitGetNotesCount
  \/ AwaitSeedCreate

NextStartup ==
  \/ Tick
  \/ EarlierNote
  \/ MountRootLayout
  \/ AwaitInitializeDatabase
  \/ AwaitGetDatabaseInfo
  \/ AwaitGetNotesCount
  \/ AwaitSeedCreate

\* every await of setupDatabase settles: the storage engine answers or throws
SpecStartup == Init /\ [][NextStartup]_vars /\ WF_vars(SetupStep)

-----------------------------------------------------------------------------
(* The Gemini request loop (services/geminiService.ts) *)

MAX_RETRIES_OffByOne == 3 - 1

MAX_RETRIES == 3

\* What one fetch can come to: a candidate with text (and grounding
\* attributions), an HTTP status that is not ok, a body without text, or a
\* rejected fetch
FetchOutcomes ==
  {[kind |-> "text", text |-> "t1", attributions |-> <<>>],
   [kind |-> "text", text |-> "t2",
    attributions |-> << [uri |-> "https://a", title |-> "A"],
                        [uri |-> Undefined, title |-> "B"] >>],
   [kind |-> "http", status |-> 400],
   [kind |-> "http", status |-> 401],
   [kind |-> "http", status |-> 403],
   [kind |-> "http", status |-> 429],
   [kind |-> "http", status |-> 500],
   [kind |-> "incomplete"],
   [kind |-> "network"]}

\* the message of the Error an attempt throws
AttemptError(outcome) ==
  CASE outcome.kind = "http" -> <<"Error HTTP", outcome.status>>
    [] outcome.kind = "incomplete" ->
         <<"Respuesta de la API incompleta o sin contenido.">>
    [] OTHER -> <<"Network request failed">>

\* Math.pow(2, attempt) * 1000
BackoffDelay(attempt) == (2 ^ attempt) * 1000

\* groundingAttributions mapped to {uri, title} and filtered
ExtractSources(attributions) ==
  SelectSeq(attributions,
            LAMBDA source : Truthy(source.uri) /\ Truthy(source.title))

\* the Error thrown after the loop, without the message of lastError
ExhaustedErrorUnknown(lastError) ==
  <<"Fallo al generar contenido", MAX_RETRIES, <<"Desconocido">>>>

\* the Error thrown after the loop
ExhaustedError(lastError) == <<"Fallo al generar contenido", MAX_RETRIES, lastError>>

ErrNoApiKey ==
  <<"La clave de API de Gemini no está configurada. Revisa el archivo .env.">>

\* the call, up to the first fetch; script is what the network answers to the
\* fetches of this call, in order
GenCall ==
  \E apiKey \in {"", "key"}, script \in [1..MaxFetches -> FetchOutcomes] :
    /\ gen.pc = "idle"
    /\ gen' = IF ~Truthy(apiKey)
                THEN [GenIdle EXCEPT !.pc = "thrown", !.error = ErrNoApiKey]
                ELSE [GenIdle EXCEPT !.pc = "fetch", !.apiKey = apiKey,
                                     !.script = script]
    /\ UNCHANGED <<storeVars, controller, boot>>

\* await fetch(...) of one attempt, with what follows it up to the next await
GenFetch ==
  /\ gen.pc = "fetch"
  /\ gen.fetches < MaxFetches
  /\ LET outcome == gen.script[gen.fetches + 1]
         fetched == [gen EXCEPT !.fetches = gen.fetches + 1]
         failed == [fetched EXCEPT !.lastError = AttemptError(outcome),
                                   !.attempt = gen.attempt + 1]
     IN  gen' =
           IF outcome.kind = "text"
             THEN [fetched EXCEPT
                     !.pc = "returned",
                     !.result = [text |-> outcome.text,
                                 sources |-> ExtractSources(outcome.attributions)]]
           ELSE IF failed.attempt < MAX_RETRIES
             THEN [failed EXCEPT !.pc = "backoff"]
           ELSE [failed EXCEPT !.pc = "thrown",
                               !.error = ExhaustedError(failed.lastError)]
  /\ UNCHANGED <<storeVars, controller, boot>>

\* await new Promise(resolve => setTimeout(resolve, delay)) before a retry
GenBackoff ==
  /\ gen.pc = "backoff"
  /\ gen' = [gen EXCEPT !.pc = "fetch",
                        !.waits = Append(gen.waits, BackoffDelay(gen.attempt))]
  /\ UNCHANGED <<storeVars, controller, boot>>

\* the caller is done with the outcome
GenDone ==
  /\ gen.pc \in {"returned", "thrown"}
  /\ gen' = GenIdle
  /\ UNCHANGED <<storeVars, controller, boot>>

NextGen ==
  \/ GenCall
  \/ GenFetch
  \/ GenBackoff
  \/ GenDone

SpecGen == Init /\ [][NextGen]_vars

-----------------------------------------------------------------------------
(* Properties of the notes repository *)

AllWhitespace(text) == \A i \in 1..Len(text) : text[i] = " "

SameExceptDate(a, b) ==
  /\ a.id = b.id
  /\ a.title = b.title
  /\ a.content = b.content
  /\ a.emoji = b.emoji
  /\ a.color = b.color
  /\ a.createdAt = b.createdAt
  /\ a.updatedAt = b.updatedAt
  /\ a.categoryId = b.categoryId
  /\ a.userId = b.userId

\* C1: createNote with an empty or all-whitespace title is rejected with
\* 'El título no puede estar vacío' and the notes table is what it was before
\* the call, whatever the other fields of the DTO are.
C1_BlankTitleRejected ==
  (ret.op = "createNote" /\ AllWhitespace(ret.arg.title)) =>
    /\ ~ret.ok
    /\ ret.err = ErrTitleEmpty
    /\ notes = ret.before

C1_Witness ==
  /\ ret.op = "createNote"
  /\ ret.arg.title = <<" ">>
  /\ ret.err = ErrTitleEmpty
  /\ Len(notes) = 1

\* C3: getNoteById(n.id) right after the createNote that returned n, with no
\* mutation in between, returns a note equal to n in id, title, content, emoji,
\* color, createdAt, updatedAt, categoryId and userId.
C3_CreateThenGetRoundTrip ==
  (ret.op = "getNoteById" /\ ret.fault = 0 /\ ret.prev.op = "createNote") =>
    /\ ret.ok
    /\ ret.val # NullNote
    /\ SameExceptDate(ret.val, ret.prev.val)

C3_Witness ==
  /\ ret.op = "getNoteById"
  /\ ret.ok
  /\ ret.prev.op = "createNote"
  /\ ret.val.title = <<"A", "b">>
  /\ ret.val.emoji = DefaultEmoji
  /\ Len(notes) = 2

\* C6: updateNote and deleteNote with an id that is not in the notes table are
\* rejected with 'Nota no encontrada' (when the lookup itself does not fail)
\* and leave the notes table unchanged; update creates no row.
C6_AbsentIdNotFound ==
  (/\ ret.op \in {"updateNote", "deleteNote"}
   /\ (IF ret.op = "updateNote" THEN ret.arg.id ELSE ret.arg) \notin IdsOf(ret.before)) =>
    /\ ~ret.ok
    /\ ret.fault = 0 => ret.err = ErrNotFound
    /\ notes = ret.before

C6_Witness ==
  /\ ret.op = "updateNote"
  /\ ret.err = ErrNotFound
  /\ ret.arg.id \notin IdsOf(notes)
  /\ ret.arg.id # MissingRef
  /\ Len(notes) = 1

\* C7: getNoteById(id) after a successful deleteNote(id) returns null and does
\* not throw; getNoteById returns null for every id that is not stored; and an
\* id that is not stored stays absent until createNote inserts it again.
C7_DeletedStaysAbsent ==
  /\ [](/\ (ret.op = "deleteNote" /\ ret.ok) => ret.arg \notin IdsOf(notes)
        /\ (/\ ret.op = "getNoteById"
            /\ ret.fault = 0
            /\ ret.arg \notin IdsOf(ret.before)) =>
             (ret.ok /\ ret.val = NullNote))
  /\ [][\A id \in NoteIdInputs :
          (id \notin IdsOf(notes) /\ id \in IdsOf(notes')) =>
            (ret'.op = "createNote" /\ ret'.ok /\ ret'.val.id = id)]_vars

C7_Witness ==
  /\ ret.op = "getNoteById"
  /\ ret.ok
  /\ ret.val = NullNote
  /\ ret.prev.op = "deleteNote"
  /\ Len(notes) = 1

\* C2: no successful createNote of a session returns an id that an earlier
\* successful createNote of the session returned.
C2_IdsNeverReused == reusedIds = {}

IsoToTime(iso) == iso[1] * 10 + iso[2]

Rows(table) == {table[i] : i \in 1..Len(table)}

\* the notes, as the repository returns them, of the owner (of all when no
\* owner is given)
NotesOf(table, userId) ==
  {rowToNote(row) : row \in {r \in Rows(table) :
                               userId \in {Undefined, ""} \/ r.userId = userId}}

NewestFirst(list) ==
  \A i \in 1..(Len(list) - 1) :
    IsoToTime(list[i].updatedAt) >= IsoToTime(list[i + 1].updatedAt)

\* list holds exactly the notes of the set, each once
Lists(list, set) == Rows(list) = set /\ Len(list) = Cardinality(set)

\* C4: getAllNotes returns every stored note of the given owner (every note
\* when no owner is given), each once, ordered by updatedAt descending; and a
\* getAllNotes that follows a getAllNotes of the same owner with no mutation in
\* between returns the same sequence.
C4_ListNewestFirstAndStable ==
  (ret.op = "getAllNotes" /\ ret.ok) =>
    /\ Lists(ret.val, NotesOf(notes, ret.arg))
    /\ NewestFirst(ret.val)
    /\ ret.prev.op = "getAllNotes" => ret.val = ret.prev.val

C4_Witness ==
  /\ ret.op = "getAllNotes"
  /\ ret.ok
  /\ ret.arg = Undefined
  /\ ret.prev.op = "getAllNotes"
  /\ Len(ret.val) = 2
  /\ ret.val[1].id = notes[2].id
  /\ ret.val[1].userId # ret.val[2].userId
  /\ IsoToTime(ret.val[1].updatedAt) > IsoToTime(ret.val[2].updatedAt)

Contains(text, part) ==
  \E i \in 0..(Len(text) - Len(part)) : SubSeq(text, i + 1, i + Len(part)) = part

\* title or content contains the query, both taken in lower case
MatchesLiterally(note, query) ==
  \/ Contains(toLowerCase(note.title), toLowerCase(query))
  \/ Contains(toLowerCase(note.content), toLowerCase(query))

\* C8: searchNotes(query) returns exactly the stored notes (of the owner) whose
\* title or content contains the trimmed query as a literal substring, compared
\* case-insensitively, newest first; a query that is empty after trimming
\* returns what getAllNotes returns.
C8_SearchIsLiteralSubstring ==
  (ret.op = "searchNotes" /\ ret.ok) =>
    LET query == trim(ret.arg.query)
        owned == NotesOf(notes, ret.arg.userId)
    IN  /\ NewestFirst(ret.val)
        /\ IF query = <<>>
             THEN ret.val = MapRowToNote(SelectAllNotes(notes, ret.arg.userId))
             ELSE Lists(ret.val, {note \in owned : MatchesLiterally(note, query)})

IsContentOnly(dto) ==
  /\ dto.content # UndefinedText
  /\ dto.title = UndefinedText
  /\ dto.emoji = Undefined
  /\ dto.color = Undefined
  /\ dto.categoryId = Undefined

\* what updateNote with only `content` leaves as it was: the note's fields other
\* than content, date and updatedAt, and every other note
ContentOnlyFrame(before, after, id) ==
  LET old == rowToNote(RowOf(before, id))
      new == rowToNote(RowOf(after, id))
  IN  /\ Len(after) = Len(before)
      /\ \A i \in 1..Len(before) : before[i].id # id => after[i] = before[i]
      /\ new.id = old.id
      /\ new.title = old.title
      /\ new.emoji = old.emoji
      /\ new.color = old.color
      /\ new.categoryId = old.categoryId
      /\ new.createdAt = old.createdAt
      /\ new.userId = old.userId

\* C5: a successful updateNote with only `content` set leaves the note's title,
\* emoji, color, categoryId, id, createdAt and userId and every other note
\* unchanged, and sets updatedAt strictly greater than it was before the call.
C5_ContentOnlyUpdate ==
  (ret.op = "updateNote" /\ ret.ok /\ IsContentOnly(ret.arg)) =>
    /\ ContentOnlyFrame(ret.before, notes, ret.arg.id)
    /\ IsoToTime(RowOf(notes, ret.arg.id).updatedAt)
         > IsoToTime(RowOf(ret.before, ret.arg.id).updatedAt)

NoDanglingReference ==
  \A row \in Rows(notes) :
    /\ row.userId = NULL \/ row.userId \in users
    /\ row.categoryId = NULL \/ row.categoryId \in IdsOf(categories)

\* a step that deletes a user row under foreign-key enforcement deletes the
\* notes of that user and no other note
DeleteUserCascades ==
  (foreignKeys /\ ret'.op = "deleteUser" /\ ret'.ok /\ ret' # ret) =>
    /\ ret'.arg \notin users'
    /\ Lists(notes', {row \in Rows(notes) : row.userId # ret'.arg})

\* a step that deletes a category row under foreign-key enforcement keeps every
\* note and sets categoryId to null on the notes that referenced it
DeleteCategorySetsNull ==
  (foreignKeys /\ ret'.op = "deleteCategory" /\ ret'.ok /\ ret' # ret) =>
    /\ ret'.arg \notin IdsOf(categories')
    /\ Len(notes') = Len(notes)
    /\ \A i \in 1..Len(notes) :
         notes'[i] = IF notes[i].categoryId = ret'.arg
                       THEN [notes[i] EXCEPT !.categoryId = NULL]
                     ELSE notes[i]

\* C9: with the foreign keys of initializeDatabase enforced, deleting a user
\* row deletes the notes of that user, deleting a category row sets categoryId
\* to null on the notes that referenced it and deletes none, and no insert,
\* update or delete leaves a note that references a missing user or category.
C9_ReferencesStayValid ==
  /\ NoDanglingReference
  /\ [][DeleteUserCascades]_vars
  /\ [][DeleteCategorySetsNull]_vars
  /\ [][(foreignKeys /\ NoDanglingReference) => NoDanglingReference']_vars

C9_Witness ==
  /\ ret.op = "deleteUser"
  /\ ret.ok
  /\ foreignKeys
  /\ Len(ret.before) = 2
  /\ Len(notes) = 1
  /\ notes[1].userId = NULL
  /\ notes[1].categoryId = NULL
  /\ categories = <<>>

-----------------------------------------------------------------------------
(* Properties of the Gemini request loop *)

Transient(outcome) ==
  outcome.kind # "text" /\ ~(outcome.kind = "http" /\ outcome.status \in {401, 403})

\* C10: when the first two attempts fail with transient failures and the third
\* succeeds, the finished call has returned the third attempt's text and has
\* raised no error; the two failures do not reach the caller.
C10_ThirdAttemptSucceeds ==
  (/\ gen.pc \in {"returned", "thrown"}
   /\ gen.script # <<>>
   /\ Transient(gen.script[1])
   /\ Transient(gen.script[2])
   /\ gen.script[3].kind = "text") =>
    /\ gen.pc = "returned"
    /\ gen.result.text = gen.script[3].text
    /\ gen.error = NULL
    /\ gen.fetches = 3

C10_Witness ==
  /\ gen.pc = "returned"
  /\ gen.fetches = 3
  /\ gen.script[1] = [kind |-> "http", status |-> 429]
  /\ gen.script[2] = [kind |-> "network"]
  /\ gen.result.text = "t2"
  /\ Len(gen.waits) = 2

Unauthorized(outcome) == outcome.kind = "http" /\ outcome.status \in {401, 403}

Finished == gen.pc \in {"returned", "thrown"}

\* C11: without a credential the call fails before any fetch; and once an
\* attempt is rejected with HTTP 401 or 403 the call has failed with that
\* attempt's error, with no further attempt and no backoff wait after it.
C11_AuthFailureNotRetried ==
  /\ (gen.pc # "idle" /\ gen.apiKey = "") =>
       (gen.pc = "thrown" /\ gen.fetches = 0 /\ gen.waits = <<>>)
  /\ \A k \in 1..gen.fetches :
       Unauthorized(gen.script[k]) =>
         /\ gen.pc = "thrown"
         /\ gen.fetches = k
         /\ Len(gen.waits) = k - 1
         /\ gen.error = AttemptError(gen.script[k])

BackoffSchedule == <<1000, 2000, 4000>>

\* C12: there is no wait before the first attempt, and the waits before the
\* later attempts are 1 s, 2 s, 4 s in this order, starting with 1 s before the
\* first retry.
C12_WaitsFollowSchedule ==
  /\ gen.fetches = 0 => gen.waits = <<>>
  /\ Len(gen.waits) <= Len(BackoffSchedule)
  /\ \A i \in 1..Len(gen.waits) :
       i <= Len(BackoffSchedule) => gen.waits[i] = BackoffSchedule[i]

\* C13: a call makes at most 3 attempts; when every attempt fails with a
\* failure other than HTTP 401/403, the finished call has made exactly 3
\* attempts and has failed with the error that names 3 attempts and carries the
\* message of the third failure.
C13_ExhaustionAfterThreeAttempts ==
  /\ gen.fetches <= 3
  /\ (/\ Finished
      /\ gen.apiKey # ""
      /\ \A k \in 1..gen.fetches : Transient(gen.script[k])) =>
       /\ gen.pc = "thrown"
       /\ gen.fetches = 3
       /\ gen.error = <<"Fallo al generar contenido", 3, AttemptError(gen.script[3])>>

C13_Witness ==
  /\ gen.pc = "thrown"
  /\ gen.fetches = 3
  /\ gen.script[1] = [kind |-> "http", status |-> 400]
  /\ gen.script[2] = [kind |-> "network"]
  /\ gen.script[3] = [kind |-> "incomplete"]
  /\ gen.waits = <<2000, 4000>>


-----------------------------------------------------------------------------
(* The notes controller *)

Mutations == {"createNewNote", "updateExistingNote", "deleteExistingNote"}

\* the call of a slot takes the step from one position to the next
Steps(slot, from, to) == calls[slot].pc = from /\ calls'[slot].pc = to

\* C14: a createNewNote, updateExistingNote or deleteExistingNote whose
\* repository call rejects never touches the held list, from the call to its
\* rejection; it puts the failure message in the error slot and rejects to its
\* caller with that same message.
C14_FailedMutationKeepsList ==
  [][\A slot \in Slots :
       /\ (calls[slot].pc \in {"idle", "settled"} /\ calls'[slot].pc = "persist"
             /\ calls'[slot].op \in Mutations)
            => hook'.notes = hook.notes
       /\ (Steps(slot, "persist", "complete") /\ calls[slot].op \in Mutations)
            => hook' = hook
       /\ ( /\ Steps(slot, "complete", "settled")
            /\ calls[slot].op \in Mutations
            /\ ~calls[slot].outcome.ok )
            => /\ hook'.notes = hook.notes
               /\ hook'.error = calls[slot].outcome.err
               /\ ~calls'[slot].ok
               /\ calls'[slot].err = calls[slot].outcome.err]_vars

C14_Witness ==
  /\ calls[1].pc = "settled"
  /\ calls[1].op = "updateExistingNote"
  /\ ~calls[1].ok
  /\ calls[1].err = SqliteError
  /\ hook.error = SqliteError
  /\ Len(hook.notes) = 2

\* the call of the slot was a createNewNote with a valid title that has
\* completed and whose storage did not fail
CreatedBy(slot) ==
  /\ calls[slot].pc = "settled"
  /\ calls[slot].op = "createNewNote"
  /\ ~AllWhitespace(calls[slot].arg.title)
  /\ calls[slot].fault = 0

OccursOnce(list, note) == Cardinality({i \in 1..Len(list) : list[i] = note}) = 1

\* C15: two createNewNote calls with valid titles, the second made while the
\* first was in flight, both resolve once both have completed, in every order
\* of their persists and completions: their notes are two notes, both stored,
\* and both exactly once in the held list.
C15_OverlappingCreatesBothLand ==
  (CreatedBy(1) /\ CreatedBy(2)) =>
    /\ calls[1].ok
    /\ calls[2].ok
    /\ calls[1].val.id # calls[2].val.id
    /\ \A slot \in {1, 2} :
         /\ OccursOnce(MapRowToNote(notes), calls[slot].val)
         /\ OccursOnce(hook.notes, calls[slot].val)

HeldIds(list) == {note.id : note \in Rows(list)}

\* C16: the completion of an updateExistingNote that succeeded puts the note
\* the repository returned where the entry with its id was, keeps every other
\* entry and the set of ids, and leaves the held list ordered by updatedAt
\* descending.
C16_UpdateReplacesAndSorts ==
  [][\A slot \in Slots :
       ( /\ Steps(slot, "complete", "settled")
         /\ calls[slot].op = "updateExistingNote"
         /\ calls[slot].outcome.ok )
         => LET updatedNote == calls[slot].outcome.val
            IN  /\ calls'[slot].ok
                /\ calls'[slot].val = updatedNote
                /\ HeldIds(hook'.notes) = HeldIds(hook.notes)
                /\ Len(hook'.notes) = Len(hook.notes)
                /\ \A note \in Rows(hook.notes) :
                     IF note.id = updatedNote.id
                       THEN /\ updatedNote \in Rows(hook'.notes)
                            /\ note # updatedNote => note \notin Rows(hook'.notes)
                       ELSE note \in Rows(hook'.notes)
                /\ NewestFirst(hook'.notes)]_vars

C16_Witness ==
  /\ calls[1].pc = "settled"
  /\ calls[1].op = "updateExistingNote"
  /\ calls[1].ok
  /\ Len(hook.notes) = 2
  /\ Len(notes) = 2
  /\ hook.notes[1] = calls[1].val
  /\ hook.notes[1].id = notes[1].id
  /\ IsoToTime(hook.notes[1].updatedAt) > IsoToTime(hook.notes[2].updatedAt)

\* C17: a refresh asks searchNotes when its search text has a character that
\* is not white space and getAllNotes otherwise; when the repository answers
\* it replaces the held list with the answer, when the repository fails it
\* keeps the held list and stores the failure message in the error slot; either
\* way it resolves and leaves the loading flag false.
C17_RefreshLoadsOrReports ==
  [][\A slot \in Slots :
       /\ ( /\ Steps(slot, "persist", "complete")
            /\ calls[slot].op = "refreshNotes" )
            => /\ calls[slot].arg = hook.searchQuery
               /\ calls'[slot].outcome.op =
                    IF AllWhitespace(calls[slot].arg) THEN "getAllNotes"
                                                      ELSE "searchNotes"
               /\ hook' = hook
       /\ ( /\ Steps(slot, "complete", "settled")
            /\ calls[slot].op = "refreshNotes" )
            => /\ calls'[slot].ok
               /\ hook'.isLoading = FALSE
               /\ IF calls[slot].outcome.ok
                    THEN /\ hook'.notes = calls[slot].outcome.val
                         /\ hook'.error = hook.error
                    ELSE /\ hook'.notes = hook.notes
                         /\ hook'.error = calls[slot].outcome.err]_vars

C17_Witness ==
  /\ calls[1].pc = "settled"
  /\ calls[1].op = "refreshNotes"
  /\ calls[1].ok
  /\ calls[1].fault = 1
  /\ hook.searchQuery = <<"B">>
  /\ hook.error = ErrSearch
  /\ hook.notes # <<>>
  /\ ~hook.isLoading

-----------------------------------------------------------------------------
(* Backups and example notes *)

Absent(ref) == ref \in {NULL, Undefined, ""}

\* the row holds every field of the note of the backup
StoredVerbatim(row, note) ==
  /\ SameExceptDate(row, [note EXCEPT !.categoryId = row.categoryId,
                                      !.userId = row.userId])
  /\ row.date = note.date
  /\ row.categoryId = note.categoryId \/ (Absent(note.categoryId) /\ row.categoryId = NULL)
  /\ row.userId = note.userId \/ (Absent(note.userId) /\ row.userId = NULL)

\* the i-th note of the batch has an id that is stored already or that a note
\* before it in the batch has
Collides(table, batch, i) ==
  \/ batch[i].id \in {row.id : row \in Rows(table)}
  \/ \E j \in 1..(i - 1) : batch[j].id = batch[i].id

\* C18: an importNotes whose storage does not fail leaves every row that was
\* stored where and as it was, adds one row for every note of the batch whose
\* id was not stored and is not the id of a note before it in the batch, with
\* every field of that note, and adds nothing else; the same batch imported
\* again changes nothing.
C18_ImportNeverOverwrites ==
  (ret.op = "importNotes" /\ ret.fault = 0) =>
    LET batch == ret.arg
        fresh == {i \in 1..Len(batch) : ~Collides(ret.before, batch, i)}
    IN  /\ Len(notes) = Len(ret.before) + Cardinality(fresh)
        /\ SubSeq(notes, 1, Len(ret.before)) = ret.before
        /\ \A i \in fresh :
             \E k \in (Len(ret.before) + 1)..Len(notes) :
               StoredVerbatim(notes[k], batch[i])
        /\ ret.prev.op = "importNotes" => notes = ret.before

SampleTitles == [i \in 1..5 |-> sampleNotes[i].title]

\* C19: a seedDatabase whose storage does not fail, called on a table of at
\* least one note, leaves the table as it was; called on an empty table, it
\* leaves exactly the 5 example notes, so that after any number of calls on a
\* store that was empty there are exactly 5 notes.
C19_SeedOnlyWhenEmpty ==
  (ret.op = "seedDatabase" /\ ret.fault = 0 /\ boot.pc = "idle") =>
    IF ret.before # <<>>
      THEN notes = ret.before
      ELSE /\ Len(notes) = 5
           /\ [i \in 1..5 |-> notes[i].title] = SampleTitles

StampsInOrder(note) == IsoToTime(note.updatedAt) >= IsoToTime(note.createdAt)

\* the rows of the table with this id
RowsWithId(table, id) == {row \in Rows(table) : row.id = id}

\* C20: every stored note has updatedAt >= createdAt, whatever createNote,
\* updateNote, deleteNote and importNotes calls were made; a created note has
\* createdAt = updatedAt, and an updated note keeps its createdAt and is stored
\* with the updatedAt the update gave it.
C20_UpdatedNotBeforeCreated ==
  /\ \A row \in Rows(notes) : StampsInOrder(row)
  /\ (ret.op = "createNote" /\ ret.ok) =>
       /\ ret.val.createdAt = ret.val.updatedAt
       /\ \A row \in RowsWithId(notes, ret.val.id) :
            row.createdAt = ret.val.createdAt /\ row.updatedAt = ret.val.updatedAt
  /\ (ret.op = "updateNote" /\ ret.ok) =>
       \A old \in RowsWithId(ret.before, ret.arg.id) :
         /\ ret.val.createdAt = old.createdAt
         /\ \A row \in RowsWithId(notes, ret.arg.id) :
              row.createdAt = old.createdAt /\ row.updatedAt = ret.val.updatedAt

-----------------------------------------------------------------------------
(* Editing notes and categories *)

\* C21: an updateNote of a stored note whose title is given and is empty once
\* trimmed fails with 'El título no puede estar vacío' and leaves the table as
\* it was; no stored note has an empty title.
C21_BlankTitleUpdateRejected ==
  /\ ( /\ ret.op = "updateNote"
       /\ ret.fault = 0
       /\ ret.arg.title # UndefinedText
       /\ AllWhitespace(ret.arg.title)
       /\ RowsWithId(ret.before, ret.arg.id) # {} )
       => /\ ~ret.ok
          /\ ret.err = ErrTitleEmpty
          /\ notes = ret.before
  /\ \A row \in Rows(notes) : row.title # <<>>

\* C22: the category that a createCategory returned is, field by field, the
\* row of its id that a getAllCategories right after it returns, also when
\* color or icon were omitted.
C22_CategoryReturnedAsPersisted ==
  (ret.op = "getAllCategories" /\ ret.ok /\ ret.prev.op = "createCategory") =>
    /\ \E row \in Rows(ret.val) : row.id = ret.prev.val.id
    /\ \A row \in Rows(ret.val) :
         row.id = ret.prev.val.id =>
           /\ row.name = ret.prev.val.name
           /\ row.color = ret.prev.val.color
           /\ row.icon = ret.prev.val.icon
           /\ row.createdAt = ret.prev.val.createdAt

Stepping(from, to) == { slot \in Slots : Steps(slot, from, to) }

\* two settled, successful updateExistingNote calls on one note
BothUpdated(a, b) ==
  /\ a # b
  /\ \A slot \in {a, b} :
       /\ calls[slot].pc = "settled"
       /\ calls[slot].op = "updateExistingNote"
       /\ calls[slot].ok
  /\ calls[a].arg.id = calls[b].arg.id

\* C23: with updateNote calls on one note overlapping, storage changes only
\* when one of them runs its UPDATE, and then the stored row is the merged note
\* that call returns; the reads, the failed writes and the completions leave
\* storage alone, so the call that writes last decides the stored row.
C23_LaterWriteWins ==
  [][/\ \A slot \in Stepping("write", "complete") :
          IF calls'[slot].outcome.ok
            THEN SelectNoteById(notes', calls[slot].arg.id)
                   = calls'[slot].outcome.val
            ELSE notes' = notes
     /\ (notes # <<>> /\ Stepping("write", "complete") = {}) => notes' = notes
     /\ \A slot \in Stepping("complete", "settled") :
          (calls[slot].op = "updateExistingNote" /\ calls[slot].outcome.ok)
            => calls'[slot].val = calls[slot].outcome.val]_vars

\* both calls have returned, with different notes, and the row is the second's
C23_Witness ==
  \E a, b \in Slots :
    /\ BothUpdated(a, b)
    /\ calls[a].arg.title # calls[b].arg.title
    /\ calls[a].val # calls[b].val
    /\ SelectNoteById(notes, calls[b].arg.id) = calls[b].val
    /\ SelectNoteById(notes, calls[a].arg.id) # calls[a].val

\* one of two settled, successful updates of one note set only the title and
\* the other only the content
DisjointUpdates(a, b) ==
  /\ BothUpdated(a, b)
  /\ calls[a].arg.title # UndefinedText /\ calls[a].arg.content = UndefinedText
  /\ calls[b].arg.title = UndefinedText /\ calls[b].arg.content # UndefinedText

\* C28: two overlapping updateNote calls on one note, one setting only the
\* title and the other only the content, both take effect: after both completed
\* the stored note has the new title and the new content.
C28_DisjointUpdatesBothLand ==
  \A a, b \in Slots :
    DisjointUpdates(a, b) =>
      LET row == SelectNoteById(notes, calls[a].arg.id)
      IN  /\ row.title = trim(calls[a].arg.title)
          /\ row.content = trim(calls[b].arg.content)

\* C28 as amended: each of the two calls writes the fields it sets and, for
\* the title or content it omits, the value of the note as that call read it;
\* after both completed the stored note has the field set by the call that
\* wrote last, and the other call's field only if the last writer read the note
\* after the other's write.
C28_WriteKeepsWhatItRead ==
  /\ [][\A slot \in Stepping("write", "complete") :
          calls'[slot].outcome.ok =>
            LET dto == calls[slot].arg
                read == calls[slot].existing
                row == SelectNoteById(notes', dto.id)
            IN  /\ row.title = IF dto.title = UndefinedText THEN read.title
                               ELSE trim(dto.title)
                /\ row.content = IF dto.content = UndefinedText THEN read.content
                                 ELSE trim(dto.content)]_vars
  /\ [](\A a, b \in Slots :
          DisjointUpdates(a, b) =>
            LET row == SelectNoteById(notes, calls[a].arg.id)
            IN  \/ row.title = trim(calls[a].arg.title)
                \/ row.content = trim(calls[b].arg.content))

\* both calls resolved and the stored note has the new content but the title
\* from before the title update
C28_Witness ==
  \E a, b \in Slots :
    /\ DisjointUpdates(a, b)
    /\ SelectNoteById(notes, calls[a].arg.id).title # trim(calls[a].arg.title)
    /\ SelectNoteById(notes, calls[a].arg.id).content = trim(calls[b].arg.content)
    /\ calls[a].val.title = trim(calls[a].arg.title)

\* setupDatabase has been called
SetupCalled == boot.pc \in {"initialize", "info", "seed", "seeding", "done"}

\* C25: once setupDatabase is called the app is eventually marked ready,
\* whether initializeDatabase, getDatabaseInfo and seedDatabase succeed or
\* fail; it is never marked ready while initializeDatabase is pending;
\* seedDatabase is never called when initializeDatabase failed, and is called
\* only after initializeDatabase succeeded.
C25_StartupAlwaysReady ==
  /\ [](SetupCalled =>
          /\ boot.isDbReady => boot.initialized # "pending"
          /\ boot.seedCalled => boot.initialized = "done"
          /\ boot.pc = "done" => boot.isDbReady)
  /\ (SetupCalled ~> (SetupCalled /\ boot.isDbReady))

\* marked ready after initializeDatabase failed, with nothing seeded
C25_Witness ==
  /\ SetupCalled
  /\ boot.isDbReady
  /\ boot.initialized = "failed"
  /\ ~boot.seedCalled

\* every note of the list contains the text in its title or content
AllMatch(list, text) ==
  \A i \in 1..Len(list) : MatchesLiterally(list[i], text)

\* the notes of a list
Held(list) == { list[i] : i \in 1..Len(list) }

\* the slots whose call of an operation returns in this step
Returning(op) ==
  { slot \in Stepping("complete", "settled") : calls[slot].op = op }

\* C26: whenever the trimmed search text is not empty and no refreshNotes is
\* in flight, every note of the held list contains the search text in its
\* title or content, whatever createNewNote, updateExistingNote and
\* deleteExistingNote calls were made with that search text.
C26_HeldNotesMatchSearch ==
  (trim(hook.searchQuery) # <<>> /\ InFlight("refreshNotes") = {})
    => AllMatch(hook.notes, trim(hook.searchQuery))

\* every note of the list is one that searchNotes selects for the text
AllSelected(list, text) ==
  \A i \in 1..Len(list) : SearchMatches(list[i], SearchTerm(text))

\* C26 as amended: a refreshNotes with a search text that is not empty after
\* trimming leaves in the held list only notes that searchNotes selects for
\* that text, and deleteExistingNote keeps such a list; createNewNote prepends
\* the note it created and updateExistingNote puts the note it updated in the
\* place of the held note of that id, whether or not the note matches.
C26_MutationsIgnoreSearch ==
  [][LET text == trim(hook.searchQuery)
     IN  /\ \A slot \in Returning("refreshNotes") :
              (calls[slot].outcome.ok /\ trim(calls[slot].arg) # <<>>)
                => AllSelected(hook'.notes, calls[slot].arg)
         /\ \A slot \in Returning("deleteExistingNote") :
              AllSelected(hook.notes, text) => AllSelected(hook'.notes, text)
         /\ \A slot \in Returning("createNewNote") :
              calls[slot].outcome.ok
                => hook'.notes = <<calls[slot].outcome.val>> \o hook.notes
         /\ \A slot \in Returning("updateExistingNote") :
              calls[slot].outcome.ok
                => /\ Len(hook'.notes) = Len(hook.notes)
                   /\ \A i \in 1..Len(hook'.notes) :
                        \/ hook'.notes[i] = calls[slot].outcome.val
                        \/ hook'.notes[i] \in Held(hook.notes)
                   /\ calls[slot].arg.id \in IdsOf(hook.notes)
                        => calls[slot].outcome.val \in Held(hook'.notes)]_vars

\* with a search text that the created note does not contain, createNewNote
\* has returned and the note is in the held list
C26_Witness ==
  \E slot \in Slots :
    /\ calls[slot].pc = "settled"
    /\ calls[slot].op = "createNewNote"
    /\ calls[slot].ok
    /\ trim(hook.searchQuery) # <<>>
    /\ InFlight("refreshNotes") = {}
    /\ hook.notes # <<>>
    /\ hook.notes[1] = calls[slot].val
    /\ ~MatchesLiterally(calls[slot].val, trim(hook.searchQuery))

\* what the repository answers now to a refresh with a search text
RefreshResult(text) ==
  RepositoryOutcome([op |-> "refreshNotes", arg |-> text], 0).val

\* both slots hold a refreshNotes that returned without a storage failure,
\* a with the current search text and b with an earlier one
TextChangedInFlight(a, b) ==
  /\ a # b
  /\ \A slot \in {a, b} :
       /\ calls[slot].pc = "settled"
       /\ calls[slot].op = "refreshNotes"
       /\ calls[slot].fault = 0
  /\ calls[a].arg = hook.searchQuery
  /\ calls[b].arg # hook.searchQuery

\* C27: when the search text changed while an earlier refresh was in flight,
\* once the refreshes have completed the held list is the repository's answer
\* for the latest search text, in whatever order they completed.
C27_LatestSearchWins ==
  \A a, b \in Slots :
    TextChangedInFlight(a, b) => hook.notes = RefreshResult(hook.searchQuery)

\* C27 as amended: every refresh asks the repository with the search text it
\* was called with, and when it completes it replaces the held list with that
\* answer whatever the search text is by then; so once the refreshes have
\* completed the held list is the answer of the one that completed last, which
\* is the answer for the latest search text only if that refresh completed
\* last.
C27_LastCompletedRefreshWins ==
  [][\A slot \in Slots :
       /\ ( /\ Steps(slot, "persist", "complete")
            /\ calls[slot].op = "refreshNotes"
            /\ calls'[slot].outcome.ok )
            => calls'[slot].outcome.val = RefreshResult(calls[slot].arg)
       /\ ( /\ Steps(slot, "complete", "settled")
            /\ calls[slot].op = "refreshNotes"
            /\ calls[slot].outcome.ok )
            => /\ hook'.notes = calls[slot].outcome.val
               /\ hook'.searchQuery = hook.searchQuery]_vars

\* the refresh for an earlier search text completed last: the held list is
\* its answer and not the answer for the current search text
C27_Witness ==
  \E a, b \in Slots :
    /\ TextChangedInFlight(a, b)
    /\ hook.notes # RefreshResult(hook.searchQuery)
    /\ hook.notes = RefreshResult(calls[b].arg)

\* no note of the list has an earlier updatedAt than a note after it
OrderedByUpdatedAt(list) ==
  \A i, j \in 1..Len(list) :
    i < j => getTime(list[i].updatedAt) >= getTime(list[j].updatedAt)

\* C29: the held list is ordered by updatedAt descending in every state
\* reached through refreshNotes, createNewNote, updateExistingNote and
\* deleteExistingNote, also when two createNewNote calls overlap and complete
\* in the opposite order to their timestamps.
C29_HeldListOrdered == OrderedByUpdatedAt(hook.notes)

\* C29 as amended: the held list is ordered by updatedAt descending after a
\* refreshNotes that the repository answered and after an updateExistingNote
\* that resolved, and deleteExistingNote keeps an ordered list ordered;
\* createNewNote prepends the new note without sorting, so after it the list
\* is ordered exactly when it was ordered before and the new note's updatedAt
\* is not earlier than that of the note that was first.
C29_OrderedUntilLateCreate ==
  [][/\ \A slot \in Returning("refreshNotes") \cup Returning("updateExistingNote") :
          calls[slot].outcome.ok => OrderedByUpdatedAt(hook'.notes)
     /\ \A slot \in Returning("deleteExistingNote") :
          OrderedByUpdatedAt(hook.notes) => OrderedByUpdatedAt(hook'.notes)
     /\ \A slot \in Returning("createNewNote") :
          calls[slot].outcome.ok =>
            ( OrderedByUpdatedAt(hook'.notes)
                <=> /\ OrderedByUpdatedAt(hook.notes)
                    /\ \/ hook.notes = <<>>
                       \/ getTime(calls[slot].outcome.val.updatedAt)
                            >= getTime(hook.notes[1].updatedAt) )]_vars

\* two createNewNote calls overlapped and the one with the earlier timestamp
\* returned last: its note is first in the held list
C29_Witness ==
  /\ Len(hook.notes) = 2
  /\ \A slot \in Slots :
       /\ calls[slot].pc = "settled"
       /\ calls[slot].op = "createNewNote"
       /\ calls[slot].ok
  /\ getTime(hook.notes[1].updatedAt) < getTime(hook.notes[2].updatedAt)

\* no id occurs twice in the list
NoIdTwice(list) == Cardinality(IdsOf(list)) = Len(list)

\* C30: when no storage call fails, the search text is empty and no operation
\* of the hook is in flight, the ids of the held list are the ids of the stored
\* notes and no id is held twice, for every interleaving of refreshNotes,
\* createNewNote, updateExistingNote and deleteExistingNote.
C30_HeldIdsAreStoredIds ==
  (Settled /\ hook.searchQuery = <<>>)
    => /\ IdsOf(hook.notes) = IdsOf(notes)
       /\ NoIdTwice(hook.notes)

\* C30 as amended: with no storage failure and an empty search text, a
\* refreshNotes replaces the held list with the notes that were stored when its
\* query ran, each once; createNewNote adds the id of the note it created at
\* the head, deleteExistingNote removes the id it deleted and
\* updateExistingNote keeps the ids.  Each operation applies this when it
\* completes, to the list as it is then, whatever other calls did meanwhile.
C30_EachCallAppliesItsOwnEffect ==
  [][/\ \A slot \in Stepping("persist", "complete") :
          (calls[slot].op = "refreshNotes" /\ calls'[slot].outcome.ok)
            => /\ IdsOf(calls'[slot].outcome.val) = IdsOf(notes)
               /\ NoIdTwice(calls'[slot].outcome.val)
               /\ notes' = notes
     /\ \A slot \in Returning("refreshNotes") :
          calls[slot].outcome.ok => hook'.notes = calls[slot].outcome.val
     /\ \A slot \in Returning("createNewNote") :
          calls[slot].outcome.ok
            => /\ Len(hook'.notes) = Len(hook.notes) + 1
               /\ hook'.notes[1].id = calls[slot].outcome.val.id
               /\ IdsOf(hook'.notes)
                    = IdsOf(hook.notes) \cup {calls[slot].outcome.val.id}
     /\ \A slot \in Returning("deleteExistingNote") :
          calls[slot].outcome.ok
            => /\ IdsOf(hook'.notes) = IdsOf(hook.notes) \ {calls[slot].arg}
               /\ NoIdTwice(hook.notes) => NoIdTwice(hook'.notes)
     /\ \A slot \in Returning("updateExistingNote") :
          calls[slot].outcome.ok
            => /\ IdsOf(hook'.notes) = IdsOf(hook.notes)
               /\ Len(hook'.notes) = Len(hook.notes)]_vars

\* a createNewNote and a refreshNotes overlapped and have both returned: the
\* created note is stored and the held list, the answer of the refresh, does
\* not have it
C30_Witness ==
  \E a, b \in Slots :
    /\ calls[a].pc = "settled" /\ calls[a].op = "createNewNote" /\ calls[a].ok
    /\ calls[b].pc = "settled" /\ calls[b].op = "refreshNotes"
    /\ hook.searchQuery = <<>>
    /\ calls[a].val.id \in IdsOf(notes)
    /\ calls[a].val.id \notin IdsOf(hook.notes)

=============================================================================
